---------------------------- MODULE Spec2Model ----------------------------
(***************************************************************************)
(* Vibration feature extraction engine of Backend/signal.py.               *)
(*                                                                         *)
(* Numbers.  A Python float is a record [k, v]: k = "num" for a finite     *)
(* value v (a fixed-point integer), "nan", "pinf", "ninf" for the          *)
(* non-finite values and "none" for an absent optional argument (None).    *)
(* Units: displacement samples are integers (fixed-point mm); a time stamp *)
(* is an integer number of ticks, TicksPerSecond ticks to the second; a    *)
(* frequency is an integer number of micro-hertz (FreqScale to the hertz), *)
(* so that eps = 1e-6 Hz is 1 and the 1e-3 Hz search floor is 1000.        *)
(* Divisions that are inexact in fixed point round down (\div).            *)
(***************************************************************************)
EXTENDS Integers, Sequences, FiniteSets, TLC

VARIABLES
    op,             \* the entry point that was called
    pc,             \* position in the called function
    err,            \* the exception that left the call ("" while none)
    ran,            \* stages of analyze_displacement_series that have run
    time_stamps,    \* argument: DisplacementSeries.time_stamps (caller's)
    d_t_mm,         \* argument: DisplacementSeries.d_t_mm (caller's)
    fs_arg,         \* argument: the sampling rate as passed ([ty, v])
    fan_id,         \* argument: DisplacementSeries.fan_id
    low_cut,        \* argument
    high_cut,       \* argument
    window,         \* argument
    zero_pad_to,    \* argument (0 stands for None)
    f_search_min,   \* argument
    f_search_max,   \* argument
    A_pp_limit,     \* argument
    A_rms_limit,    \* argument
    jitter_ratio_tol, \* argument, in percent
    t_raw,          \* local of analyze_displacement_series
    x_raw,          \* local
    t,              \* local
    x,              \* local
    resample_meta,  \* local
    x_filt,         \* local
    filter_meta,    \* local
    A_pp_mm,        \* local
    A_rms_mm,       \* local
    freqs,          \* local
    X_amp,          \* local
    spec_meta,      \* local
    band,           \* local: <<band_low, band_high>> of line 425
    fmin,           \* local
    fmax,           \* local
    f_dom,          \* local
    quality,        \* local
    fs,             \* local: the validated sampling rate
    result,         \* the AnalysisResult returned
    ret             \* the value returned by a stand-alone call

args == <<time_stamps, d_t_mm, fs_arg, fan_id, low_cut, high_cut, window>>
lazy == <<zero_pad_to, f_search_min, f_search_max, A_pp_limit, A_rms_limit,
          jitter_ratio_tol>>
locals == <<t_raw, x_raw, t, x, resample_meta, x_filt, filter_meta, A_pp_mm,
            A_rms_mm, freqs, X_amp, spec_meta, band, fmin, fmax, f_dom,
            quality, fs>>
vars == <<op, pc, err, ran, args, lazy, locals, result, ret>>

(***************************************************************************)
(* Bounds of the model and units.                                          *)
(***************************************************************************)
MaxLen == 3
TicksPerSecond == 2 * 2
FreqScale == 1000 * 1000

(***************************************************************************)
(* Floats.                                                                 *)
(***************************************************************************)
Num(v) == [k |-> "num", v |-> v]
NaN == [k |-> "nan", v |-> 0]
PInf == [k |-> "pinf", v |-> 0]
NInf == [k |-> "ninf", v |-> 0]
None == [k |-> "none", v |-> 0]

\* np.isfinite
IsFinite(a) == a.k = "num"

\* a > b on floats (IEEE: every comparison with NaN is false)
FloatGt(a, b) ==
    CASE a.k = "nan" \/ b.k = "nan" -> FALSE
      [] a.k = "pinf" -> b.k # "pinf"
      [] a.k = "ninf" -> FALSE
      [] b.k = "pinf" -> FALSE
      [] b.k = "ninf" -> TRUE
      [] OTHER -> a.v > b.v

\* a >= b on floats
FloatGe(a, b) ==
    CASE a.k = "nan" \/ b.k = "nan" -> FALSE
      [] OTHER -> FloatGt(a, b) \/ (a.k = b.k /\ a.v = b.v)

RECURSIVE SumSeq(_)
SumSeq(s) == IF s = <<>> THEN 0 ELSE Head(s) + SumSeq(Tail(s))

MaxOf(S) == CHOOSE m \in S : \A o \in S : o <= m
MinOf(S) == CHOOSE m \in S : \A o \in S : m <= o
Range(s) == {s[i] : i \in DOMAIN s}

\* a Python dict is a function from its keys; {**a, **b}
EmptyDict == <<>>
Merge(a, b) ==
    [key \in (DOMAIN a) \cup (DOMAIN b) |->
        IF key \in DOMAIN b THEN b[key] ELSE a[key]]

(***************************************************************************)
(* Errors.  The code raises ValueError / TypeError with a message; the     *)
(* model names each raise site by the error kind of the design.            *)
(***************************************************************************)
NoError == ""
InvalidRateError == "InvalidRateError"            \* lines 67, 69
AllInvalidError == "AllInvalidError"              \* line 86
ShapeMismatchError == "ShapeMismatchError"        \* line 118
NonMonotonicTimeError == "NonMonotonicTimeError"  \* line 127
DegenerateTimeBaseError == "DegenerateTimeBaseError" \* line 132
InvalidBandError == "InvalidBandError"            \* lines 168, 177, 185
InvalidWindowError == "InvalidWindowError"        \* line 278
InvalidSearchBandError == "InvalidSearchBandError" \* lines 337, 339
FilterLibraryError == "FilterLibraryError"        \* raised inside scipy, line 229
LengthMismatchError == "LengthMismatchError"      \* line 331

(***************************************************************************)
(* _as_1d_float: np.asarray(x, dtype=float).reshape(-1).  The arrays of    *)
(* the model are one-dimensional float arrays already, for which the       *)
(* conversion returns the same values in the same order.                   *)
(***************************************************************************)
_as_1d_float(a) == [i \in 1..Len(a) |-> a[i]]

(***************************************************************************)
(* _validate_fs.  A rate is [ty, v]: ty is the Python type ("int",         *)
(* "float", "str", "none"), v its numeric value (0 when it has none).      *)
(* Returns [err, fs].                                                      *)
(***************************************************************************)
\* _validate_fs without line 68
_validate_fs_no_sign_check(f) ==
    IF f.ty # "int" THEN [err |-> InvalidRateError, fs |-> 0]
    ELSE [err |-> NoError, fs |-> f.v]

_validate_fs(f) ==
    IF f.ty # "int" THEN [err |-> InvalidRateError, fs |-> 0]
    ELSE IF f.v <= 0 THEN [err |-> InvalidRateError, fs |-> 0]
    ELSE [err |-> NoError, fs |-> f.v]

(***************************************************************************)
(* _sanitize_signal.  np.interp(idx[~mask], idx[mask], x[mask]): linear    *)
(* interpolation over the index axis between the nearest finite            *)
(* neighbours; left of the first and right of the last finite sample the   *)
(* value of that sample.  _as_1d_float gives a view of a float array, so   *)
(* x shares the memory of the argument; the store of line 90 goes to       *)
(* x_filled, the copy of line 89.  Returns [err, x, arg]: arg is what the  *)
(* argument array holds after the call.                                    *)
(***************************************************************************)
FiniteIdx(a) == {i \in 1..Len(a) : IsFinite(a[i])}

\* np.interp replaced by the value of the nearest finite sample on the left
InterpIndexHoldLeft(a, i) ==
    LET m == FiniteIdx(a)
        left == {j \in m : j < i}
    IN  IF left = {} THEN a[MinOf(m)] ELSE a[MaxOf(left)]

InterpIndex(a, i) ==
    LET m == FiniteIdx(a)
        left == {j \in m : j < i}
        right == {j \in m : j > i}
    IN  IF left = {} THEN a[MinOf(m)]
        ELSE IF right = {} THEN a[MaxOf(m)]
        ELSE LET l == MaxOf(left)
                 r == MinOf(right)
             IN  Num(a[l].v + ((a[r].v - a[l].v) * (i - l)) \div (r - l))

\* _sanitize_signal filling with 0.0 and never raising
_sanitize_signal_zero_fill(a) ==
    LET y == _as_1d_float(a)
    IN  IF Len(y) = 0 THEN [err |-> NoError, x |-> y, arg |-> a]
        ELSE [err |-> NoError,
              x |-> [i \in 1..Len(y) |-> IF IsFinite(y[i]) THEN y[i] ELSE Num(0)],
              arg |-> a]

\* _sanitize_signal leaving the samples before the first finite one
_sanitize_signal_keep_edges(a) ==
    LET y == _as_1d_float(a)
        m == FiniteIdx(y)
    IN  IF Len(y) = 0 THEN [err |-> NoError, x |-> y, arg |-> a]
        ELSE IF m = {} THEN [err |-> AllInvalidError, x |-> <<>>, arg |-> a]
        ELSE [err |-> NoError,
              x |-> [i \in 1..Len(y) |->
                        IF IsFinite(y[i]) \/ i < MinOf(m) THEN y[i]
                        ELSE InterpIndex(y, i)],
              arg |-> a]

\* _sanitize_signal with x_filled = x for line 89: the store of line 90
\* goes to the view of the argument
_sanitize_signal_in_place(a) ==
    LET y == _as_1d_float(a)
        x_filled == [i \in 1..Len(y) |->
                        IF IsFinite(y[i]) THEN y[i] ELSE InterpIndex(y, i)]
    IN  IF Len(y) = 0 THEN [err |-> NoError, x |-> y, arg |-> a]
        ELSE IF FiniteIdx(y) = 1..Len(y) THEN [err |-> NoError, x |-> y, arg |-> a]
        ELSE IF FiniteIdx(y) = {}
        THEN [err |-> AllInvalidError, x |-> <<>>, arg |-> a]
        ELSE [err |-> NoError, x |-> x_filled, arg |-> x_filled]

_sanitize_signal(a) ==
    LET y == _as_1d_float(a)
        x_filled == [i \in 1..Len(y) |->
                        IF IsFinite(y[i]) THEN y[i] ELSE InterpIndex(y, i)]
    IN  IF Len(y) = 0 THEN [err |-> NoError, x |-> y, arg |-> a]
        ELSE IF FiniteIdx(y) = 1..Len(y) THEN [err |-> NoError, x |-> y, arg |-> a]
        ELSE IF FiniteIdx(y) = {}
        THEN [err |-> AllInvalidError, x |-> <<>>, arg |-> a]
        ELSE [err |-> NoError, x |-> x_filled, arg |-> a]

(***************************************************************************)
(* _check_and_resample_if_needed.  Time stamps are finite reals (ticks).   *)
(* jitter_ratio_tol is given in percent.  Returns [err, t, x, meta].       *)
(***************************************************************************)
MinResampleLen == 8
DefaultTolPct == 2

\* np.diff
Diff(s) == [i \in 1..(Len(s) - 1) |-> s[i + 1] - s[i]]

\* np.any(np.diff(t) < 0): equal neighbours pass
NotStrictlyIncreasingAllowEqual(s) == \E i \in 1..(Len(s) - 1) : s[i + 1] - s[i] < 0

\* np.any(np.diff(t) <= 0)
NotStrictlyIncreasing(s) == \E i \in 1..(Len(s) - 1) : s[i + 1] - s[i] <= 0

\* np.argsort: order[k] is the index of the k-th smallest element (equal
\* elements in index order; the code fails on equal elements anyway)
ArgSort(s) ==
    LET rank(i) == 1 + Cardinality({j \in 1..Len(s) :
                         s[j] < s[i] \/ (s[j] = s[i] /\ j < i)})
    IN  [k \in 1..Len(s) |-> CHOOSE i \in 1..Len(s) : rank(i) = k]

\* s[order]
Take(s, order) == [k \in 1..Len(order) |-> s[order[k]]]

\* np.sort
NpSort(s) == Take(s, ArgSort(s))

\* 2 * np.median(s), s non-empty (the median of an even count is the mean of
\* the two middle values)
Median2(s) ==
    LET srt == NpSort(s)
        n == Len(s)
    IN  IF n % 2 = 1 THEN 2 * srt[(n + 1) \div 2]
        ELSE srt[n \div 2] + srt[n \div 2 + 1]

\* n^2 * variance of s (np.std squared, ddof = 0)
VarN2(s) ==
    Len(s) * SumSeq([i \in 1..Len(s) |-> s[i] * s[i]]) - SumSeq(s) * SumSeq(s)

\* jitter_ratio <= jitter_ratio_tol, with jitter_ratio = std(dt) / median(dt)
\* for more than one delta and 0.0 otherwise; compared exactly on the squares:
\* std^2 / med^2 <= tol^2 (std, med > 0, tol >= 0)
JitterWithin(dt, tolPct) ==
    IF Len(dt) > 1
    THEN 4 * VarN2(dt) * 100 * 100
           <= tolPct * tolPct * Len(dt) * Len(dt) * Median2(dt) * Median2(dt)
    ELSE 0 <= tolPct

\* the recorded jitter_ratio: its square in units of 1e-4, rounded down
JitterRecorded(dt) ==
    IF Len(dt) > 1
    THEN Num((4 * VarN2(dt) * 100 * 100)
               \div (Len(dt) * Len(dt) * Median2(dt) * Median2(dt)))
    ELSE Num(0)

\* int(np.floor((t1 - t0) * fs)), without the + 1
TargetLenNoLastPoint(t0, t1, f) == ((t1 - t0) * f) \div TicksPerSecond

\* int(np.floor((t1 - t0) * fs)) + 1
TargetLen(t0, t1, f) == ((t1 - t0) * f) \div TicksPerSecond + 1

\* t0 + np.arange(N_target) / fs
UniformGrid(t0, n, f) == [k \in 1..n |-> t0 + ((k - 1) * TicksPerSecond) \div f]

\* np.interp(u, tt, xx) at one point t[1] <= u <= t[-1], tt strictly increasing
InterpAt(u, tt, xx) ==
    IF \E i \in 1..Len(tt) : tt[i] = u
    THEN xx[CHOOSE i \in 1..Len(tt) : tt[i] = u]
    ELSE LET i == MaxOf({j \in 1..Len(tt) : tt[j] < u})
         IN  IF IsFinite(xx[i]) /\ IsFinite(xx[i + 1])
             THEN Num(xx[i].v + ((xx[i + 1].v - xx[i].v) * (u - tt[i]))
                                    \div (tt[i + 1] - tt[i]))
             ELSE NaN

ResampleMeta0(f) ==
    [resampled |-> FALSE, jitter_ratio |-> None, t_start |-> None,
     t_end |-> None, fs_used |-> f]

ResampleFail(e) == [err |-> e, t |-> <<>>, x |-> <<>>, meta |-> EmptyDict]

\* lines 129-157 without the short-series return of lines 148-150
ResampleTailNoShortSkip(ts, xs, f, tolPct) ==
    LET dt == Diff(ts)
        meta == [ResampleMeta0(f) EXCEPT !.jitter_ratio = JitterRecorded(dt),
                                         !.t_start = Num(ts[1]),
                                         !.t_end = Num(ts[Len(ts)])]
        n_target == TargetLen(ts[1], ts[Len(ts)], f)
        t_uniform == UniformGrid(ts[1], n_target, f)
    IN  IF Len(dt) > 0 /\ Median2(dt) <= 0
        THEN ResampleFail(DegenerateTimeBaseError)
        ELSE IF JitterWithin(dt, tolPct)
        THEN [err |-> NoError, t |-> ts, x |-> xs, meta |-> meta]
        ELSE [err |-> NoError, t |-> t_uniform,
              x |-> [k \in 1..n_target |-> InterpAt(t_uniform[k], ts, xs)],
              meta |-> [meta EXCEPT !.resampled = TRUE, !.fs_used = f]]

\* lines 129-157 without the early return of lines 141-142
ResampleTailNoJitterTest(ts, xs, f, tolPct) ==
    LET dt == Diff(ts)
        meta == [ResampleMeta0(f) EXCEPT !.jitter_ratio = JitterRecorded(dt),
                                         !.t_start = Num(ts[1]),
                                         !.t_end = Num(ts[Len(ts)])]
        n_target == TargetLen(ts[1], ts[Len(ts)], f)
        t_uniform == UniformGrid(ts[1], n_target, f)
    IN  IF Len(dt) > 0 /\ Median2(dt) <= 0
        THEN ResampleFail(DegenerateTimeBaseError)
        ELSE IF n_target < MinResampleLen
        THEN [err |-> NoError, t |-> ts, x |-> xs, meta |-> meta]
        ELSE [err |-> NoError, t |-> t_uniform,
              x |-> [k \in 1..n_target |-> InterpAt(t_uniform[k], ts, xs)],
              meta |-> [meta EXCEPT !.resampled = TRUE, !.fs_used = f]]

\* lines 129-157: the time base is strictly increasing here
ResampleTail(ts, xs, f, tolPct) ==
    LET dt == Diff(ts)
        meta == [ResampleMeta0(f) EXCEPT !.jitter_ratio = JitterRecorded(dt),
                                         !.t_start = Num(ts[1]),
                                         !.t_end = Num(ts[Len(ts)])]
        n_target == TargetLen(ts[1], ts[Len(ts)], f)
        t_uniform == UniformGrid(ts[1], n_target, f)
    IN  IF Len(dt) > 0 /\ Median2(dt) <= 0
        THEN ResampleFail(DegenerateTimeBaseError)
        ELSE IF JitterWithin(dt, tolPct)
        THEN [err |-> NoError, t |-> ts, x |-> xs, meta |-> meta]
        ELSE IF n_target < MinResampleLen
        THEN [err |-> NoError, t |-> ts, x |-> xs, meta |-> meta]
        ELSE [err |-> NoError, t |-> t_uniform,
              x |-> [k \in 1..n_target |-> InterpAt(t_uniform[k], ts, xs)],
              meta |-> [meta EXCEPT !.resampled = TRUE, !.fs_used = f]]

\* lines 115-118: "" to go on, "return" to return the arrays as they are
ShapeCheck(tt, xx) ==
    IF Len(tt) = 0 \/ Len(xx) = 0 THEN "return"
    ELSE IF Len(tt) # Len(xx) THEN ShapeMismatchError
    ELSE NoError

\* lines 120-127 without line 125
SortByTimeValuesLeft(tt, xx) ==
    IF NotStrictlyIncreasing(tt)
    THEN LET order == ArgSort(tt)
             t1 == Take(tt, order)
         IN  IF NotStrictlyIncreasing(t1)
             THEN [err |-> NonMonotonicTimeError, t |-> <<>>, x |-> <<>>]
             ELSE [err |-> NoError, t |-> t1, x |-> xx]
    ELSE [err |-> NoError, t |-> tt, x |-> xx]

\* lines 120-127: [err, t, x]
SortByTime(tt, xx) ==
    IF NotStrictlyIncreasing(tt)
    THEN LET order == ArgSort(tt)
             t1 == Take(tt, order)
             x1 == Take(xx, order)
         IN  IF NotStrictlyIncreasing(t1)
             THEN [err |-> NonMonotonicTimeError, t |-> <<>>, x |-> <<>>]
             ELSE [err |-> NoError, t |-> t1, x |-> x1]
    ELSE [err |-> NoError, t |-> tt, x |-> xx]

_check_and_resample_if_needed(ts, xs, f, tolPct) ==
    LET tt == _as_1d_float(ts)
        xx == _as_1d_float(xs)
        v == _validate_fs(f)
        shape == ShapeCheck(tt, xx)
        sorted == SortByTime(tt, xx)
    IN  IF v.err # NoError THEN ResampleFail(v.err)
        ELSE IF shape = "return"
        THEN [err |-> NoError, t |-> tt, x |-> xx, meta |-> ResampleMeta0(v.fs)]
        ELSE IF shape # NoError THEN ResampleFail(shape)
        ELSE IF sorted.err # NoError THEN ResampleFail(sorted.err)
        ELSE ResampleTail(sorted.t, sorted.x, v.fs, tolPct)

(***************************************************************************)
(* _clamp_band.  Cut-offs are floats (or None); the result is in           *)
(* micro-hertz.  Returns [err, low, high, meta].                           *)
(***************************************************************************)
Eps == 1
MarginPct == 95

\* 0.5 * fs
Nyquist(f) == (f * FreqScale) \div 2

\* nyq * margin
BandCap(f) == (Nyquist(f) * MarginPct) \div 100

ClampFail == [err |-> InvalidBandError, low |-> 0, high |-> 0, meta |-> EmptyDict]

\* lines 180-182 without the cap of line 182
ClampEdgesNoCap(lo, hi, f) == <<IF Eps > lo THEN Eps ELSE lo, hi>>

\* lines 180-182: low = max(low, eps); high = min(high, nyq * margin)
ClampEdges(lo, hi, f) ==
    <<IF Eps > lo THEN Eps ELSE lo, IF BandCap(f) < hi THEN BandCap(f) ELSE hi>>

\* _clamp_band without the test of lines 184-186
_clamp_band_no_order_check(lo, hi, f) ==
    LET v == _validate_fs(f)
        e == ClampEdges(lo.v, hi.v, v.fs)
    IN  IF v.err # NoError
        THEN [err |-> v.err, low |-> 0, high |-> 0, meta |-> EmptyDict]
        ELSE IF lo.k = "none" \/ hi.k = "none" THEN ClampFail
        ELSE IF ~IsFinite(lo) \/ ~IsFinite(hi) THEN ClampFail
        ELSE [err |-> NoError, low |-> e[1], high |-> e[2],
              meta |-> [band_input |-> <<lo.v, hi.v>>, band_used |-> e,
                        nyquist |-> Nyquist(v.fs)]]

_clamp_band(lo, hi, f) ==
    LET v == _validate_fs(f)
        e == ClampEdges(lo.v, hi.v, v.fs)
    IN  IF v.err # NoError
        THEN [err |-> v.err, low |-> 0, high |-> 0, meta |-> EmptyDict]
        ELSE IF lo.k = "none" \/ hi.k = "none" THEN ClampFail
        ELSE IF ~IsFinite(lo) \/ ~IsFinite(hi) THEN ClampFail
        ELSE IF e[1] >= e[2] THEN ClampFail
        ELSE [err |-> NoError, low |-> e[1], high |-> e[2],
              meta |-> [band_input |-> <<lo.v, hi.v>>, band_used |-> e,
                        nyquist |-> Nyquist(v.fs)]]

(***************************************************************************)
(* filter_signal.  The detrending, the Butterworth design and the          *)
(* zero-phase filtering are scipy's: what they return for a signal of n    *)
(* samples is one of a few signals of n samples (LibFilter), and           *)
(* sosfiltfilt raises when the signal is not longer than its padding.      *)
(* The set of [err, x, meta] the call may end with.                        *)
(***************************************************************************)
FilterOrder == 4
FilterShapes == {0, 1, 2}

\* what scipy may return for n samples
LibFilter(n) ==
    {[i \in 1..n |-> Num(CASE shape = 0 -> 0
                           [] shape = 1 -> IF i % 2 = 1 THEN 12 ELSE -12
                           [] OTHER -> IF i % 2 = 1 THEN 36 ELSE 12)] :
        shape \in FilterShapes}

FilterFail(e) == [err |-> e, x |-> <<>>, meta |-> EmptyDict]

\* filter_signal clamping the band (line 219) before the test of line 211
filter_signal_clamp_first(d, f, lo, hi, order, detrend) ==
    LET v == _validate_fs(f)
        s == _sanitize_signal(d)
        b == _clamp_band(lo, hi, f)
    IN  IF v.err # NoError THEN {FilterFail(v.err)}
        ELSE IF s.err # NoError THEN {FilterFail(s.err)}
        ELSE IF b.err # NoError THEN {FilterFail(b.err)}
        ELSE IF Len(s.x) = 0
        THEN {[err |-> NoError, x |-> s.x, meta |-> [note |-> "empty_signal"]]}
        ELSE {FilterFail(FilterLibraryError)} \cup
             {[err |-> NoError, x |-> y,
               meta |-> Merge([filter |-> "butterworth_bandpass_sosfiltfilt",
                               order |-> order, detrend |-> detrend], b.meta)] :
                 y \in LibFilter(Len(s.x))}

filter_signal(d, f, lo, hi, order, detrend) ==
    LET v == _validate_fs(f)
        s == _sanitize_signal(d)
        b == _clamp_band(lo, hi, f)
    IN  IF v.err # NoError THEN {FilterFail(v.err)}
        ELSE IF s.err # NoError THEN {FilterFail(s.err)}
        ELSE IF Len(s.x) = 0
        THEN {[err |-> NoError, x |-> s.x, meta |-> [note |-> "empty_signal"]]}
        ELSE IF b.err # NoError THEN {FilterFail(b.err)}
        ELSE {FilterFail(FilterLibraryError)} \cup
             {[err |-> NoError, x |-> y,
               meta |-> Merge([filter |-> "butterworth_bandpass_sosfiltfilt",
                               order |-> order, detrend |-> detrend], b.meta)] :
                 y \in LibFilter(Len(s.x))}

(***************************************************************************)
(* calculate_time_domain_amp: <<A_pp_mm, A_rms_mm>> as floats.             *)
(***************************************************************************)
ISqrt(m) == CHOOSE r \in 0..m : r * r <= m /\ (r + 1) * (r + 1) > m

\* calculate_time_domain_amp with np.max(np.abs(x)) for line 248
calculate_time_domain_amp_peak_only(d) ==
    LET y == _as_1d_float(d)
        kinds == {y[i].k : i \in 1..Len(y)}
        mags == {IF y[i].v < 0 THEN -y[i].v ELSE y[i].v : i \in FiniteIdx(y)}
        sq == [i \in 1..Len(y) |-> y[i].v * y[i].v]
    IN  IF Len(y) = 0 THEN <<Num(0), Num(0)>>
        ELSE IF "nan" \in kinds THEN <<NaN, NaN>>
        ELSE IF kinds = {"num"}
        THEN <<Num(MaxOf(mags)), Num(ISqrt(SumSeq(sq) \div Len(y)))>>
        ELSE <<PInf, PInf>>

calculate_time_domain_amp(d) ==
    LET y == _as_1d_float(d)
        kinds == {y[i].k : i \in 1..Len(y)}
        fin == {y[i].v : i \in FiniteIdx(y)}
        sq == [i \in 1..Len(y) |-> y[i].v * y[i].v]
    IN  IF Len(y) = 0 THEN <<Num(0), Num(0)>>
        ELSE IF "nan" \in kinds THEN <<NaN, NaN>>
        ELSE IF kinds = {"num"}
        THEN <<Num(MaxOf(fin) - MinOf(fin)), Num(ISqrt(SumSeq(sq) \div Len(y)))>>
        ELSE IF kinds = {"pinf"} \/ kinds = {"ninf"} THEN <<NaN, PInf>>
        ELSE <<PInf, PInf>>

(***************************************************************************)
(* calculate_fft_spectrum.  The window table and the transform are the     *)
(* library's: the magnitudes |rfft(x * w, nfft)| are one of a few          *)
(* non-negative sequences of nfft // 2 + 1 bins (LibMagnitudes).  The      *)
(* coherent gain is a rational [num, den].  The set of [err, freqs,        *)
(* X_amp, meta] the call may end with.                                     *)
(***************************************************************************)
WindowNone == "<None>"
ValidWindows == {"hann", "hamming", "boxcar"}
MagShapes == {0, 1, 2}

\* np.mean(signal.get_window(window, N, fftbins=True))
WindowMean(w, n) ==
    CASE w = "boxcar" \/ n = 1 -> [num |-> 1, den |-> 1]
      [] w = "hann" -> [num |-> 1, den |-> 2]
      [] OTHER -> [num |-> 27, den |-> 50]

\* lines 281-283
CoherentGain(m) == IF m.num <= 0 THEN [num |-> 1, den |-> 1] ELSE m

\* what np.abs(np.fft.rfft(xw, n=nfft)) may be
LibMagnitudes(nfft) ==
    {[k \in 1..(nfft \div 2 + 1) |->
         CASE shape = 0 -> 0
           [] shape = 1 -> IF k = 2 THEN 48 ELSE 12
           [] OTHER -> IF k >= 2 THEN 24 ELSE 0] : shape \in MagShapes}

\* line 288 without lines 289-290
FftLenAsRequested(n, zp) == IF zp.k # "none" THEN zp.v ELSE n

\* lines 288-290
FftLen(n, zp) ==
    LET nfft == IF zp.k # "none" THEN zp.v ELSE n
    IN  IF nfft < n THEN n ELSE nfft

\* np.fft.rfftfreq(nfft, d = 1.0 / fs)
RfftFreq(nfft, f) == [k \in 1..(nfft \div 2 + 1) |-> ((k - 1) * f * FreqScale) \div nfft]

\* lines 299-303 scaling by 2 / (nfft * cg)
CorrectAmplitudeByTransformLength(mag, n, cg, nfft) ==
    LET scaled == [k \in 1..Len(mag) |-> (2 * mag[k] * cg.den) \div (nfft * cg.num)]
        dc == [scaled EXCEPT ![1] = scaled[1] \div 2]
    IN  IF nfft % 2 = 0 /\ Len(mag) > 1
        THEN [dc EXCEPT ![Len(mag)] = dc[Len(mag)] \div 2]
        ELSE dc

\* lines 299-303
CorrectAmplitude(mag, n, cg, nfft) ==
    LET scaled == [k \in 1..Len(mag) |-> (2 * mag[k] * cg.den) \div (n * cg.num)]
        dc == [scaled EXCEPT ![1] = scaled[1] \div 2]
    IN  IF nfft % 2 = 0 /\ Len(mag) > 1
        THEN [dc EXCEPT ![Len(mag)] = dc[Len(mag)] \div 2]
        ELSE dc

SpectrumFail(e) == [err |-> e, freqs |-> <<>>, X_amp |-> <<>>, meta |-> EmptyDict]

\* calculate_fft_spectrum building the window before the test of line 266
calculate_fft_spectrum_window_first(d, f, w, zp) ==
    LET v == _validate_fs(f)
        s == _sanitize_signal(d)
        n == Len(s.x)
        flat == w = WindowNone \/ w = "none"
        cg == CoherentGain(IF flat THEN [num |-> 1, den |-> 1] ELSE WindowMean(w, n))
        nfft == FftLen(n, zp)
    IN  IF v.err # NoError THEN {SpectrumFail(v.err)}
        ELSE IF s.err # NoError THEN {SpectrumFail(s.err)}
        ELSE IF ~flat /\ w \notin ValidWindows THEN {SpectrumFail(InvalidWindowError)}
        ELSE IF n = 0
        THEN {[err |-> NoError, freqs |-> <<>>, X_amp |-> <<>>,
               meta |-> [note |-> "empty_signal"]]}
        ELSE {[err |-> NoError, freqs |-> RfftFreq(nfft, v.fs),
               X_amp |-> CorrectAmplitude(mag, n, cg, nfft),
               meta |-> [window |-> IF flat THEN "none" ELSE w,
                         coherent_gain |-> cg, n |-> n, nfft |-> nfft,
                         fs |-> v.fs]] : mag \in LibMagnitudes(nfft)}

\* calculate_fft_spectrum taking every unknown window name for the flat window
calculate_fft_spectrum_any_window(d, f, w, zp) ==
    LET v == _validate_fs(f)
        s == _sanitize_signal(d)
        n == Len(s.x)
        flat == w = WindowNone \/ w = "none" \/ w \notin ValidWindows
        cg == CoherentGain(IF flat THEN [num |-> 1, den |-> 1] ELSE WindowMean(w, n))
        nfft == FftLen(n, zp)
    IN  IF v.err # NoError THEN {SpectrumFail(v.err)}
        ELSE IF s.err # NoError THEN {SpectrumFail(s.err)}
        ELSE IF n = 0
        THEN {[err |-> NoError, freqs |-> <<>>, X_amp |-> <<>>,
               meta |-> [note |-> "empty_signal"]]}
        ELSE {[err |-> NoError, freqs |-> RfftFreq(nfft, v.fs),
               X_amp |-> CorrectAmplitude(mag, n, cg, nfft),
               meta |-> [window |-> IF flat THEN "none" ELSE w,
                         coherent_gain |-> cg, n |-> n, nfft |-> nfft,
                         fs |-> v.fs]] : mag \in LibMagnitudes(nfft)}

calculate_fft_spectrum(d, f, w, zp) ==
    LET v == _validate_fs(f)
        s == _sanitize_signal(d)
        n == Len(s.x)
        flat == w = WindowNone \/ w = "none"
        cg == CoherentGain(IF flat THEN [num |-> 1, den |-> 1] ELSE WindowMean(w, n))
        nfft == FftLen(n, zp)
    IN  IF v.err # NoError THEN {SpectrumFail(v.err)}
        ELSE IF s.err # NoError THEN {SpectrumFail(s.err)}
        ELSE IF n = 0
        THEN {[err |-> NoError, freqs |-> <<>>, X_amp |-> <<>>,
               meta |-> [note |-> "empty_signal"]]}
        ELSE IF ~flat /\ w \notin ValidWindows THEN {SpectrumFail(InvalidWindowError)}
        ELSE {[err |-> NoError, freqs |-> RfftFreq(nfft, v.fs),
               X_amp |-> CorrectAmplitude(mag, n, cg, nfft),
               meta |-> [window |-> IF flat THEN "none" ELSE w,
                         coherent_gain |-> cg, n |-> n, nfft |-> nfft,
                         fs |-> v.fs]] : mag \in LibMagnitudes(nfft)}

(***************************************************************************)
(* find_dominant_frequency.  Returns [err, f_peak, quality].  peak_ratio   *)
(* and snr_db are kept as the pair of numbers they are computed from.      *)
(***************************************************************************)
\* lines 336-339
SearchBandInvalid(lo, hi) ==
    \/ ~IsFinite(lo)
    \/ ~IsFinite(hi)
    \/ lo.v <= 0
    \/ lo.v >= hi.v

\* the last index of the maximum
ArgMaxLast(s) == MaxOf({i \in 1..Len(s) : \A j \in 1..Len(s) : s[j] <= s[i]})

\* np.argmax: the first index of the maximum
ArgMax(s) == MinOf({i \in 1..Len(s) : \A j \in 1..Len(s) : s[j] <= s[i]})

RECURSIVE SelectIdx(_)
\* the indices of a boolean mask, ascending, as a sequence
SelectIdx(idx) ==
    IF idx = {} THEN <<>>
    ELSE <<MinOf(idx)>> \o SelectIdx(idx \ {MinOf(idx)})

DominantFail(e) == [err |-> e, f_peak |-> 0, quality |-> EmptyDict]

\* find_dominant_frequency with the largest amplitude below the peak (0 when
\* there is none) for X_sorted[-2]
find_dominant_frequency_second_distinct(fr, amp, lo, hi) ==
    LET f1 == _as_1d_float(fr)
        a1 == _as_1d_float(amp)
        in_band == SelectIdx({i \in 1..Len(f1) : f1[i] >= lo.v /\ f1[i] <= hi.v})
        f_band == Take(f1, in_band)
        X_band == Take(a1, in_band)
        idx_local == ArgMax(X_band)
        below == {v \in Range(X_band) : v < X_band[idx_local]}
        second == IF below # {} THEN MaxOf(below) ELSE 0
    IN  IF Len(f1) = 0 \/ Len(a1) = 0
        THEN [err |-> NoError, f_peak |-> 0, quality |-> [note |-> "empty_spectrum"]]
        ELSE IF Len(f1) # Len(a1) THEN DominantFail(LengthMismatchError)
        ELSE IF SearchBandInvalid(lo, hi) THEN DominantFail(InvalidSearchBandError)
        ELSE IF in_band = <<>>
        THEN [err |-> NoError, f_peak |-> 0,
              quality |-> [note |-> "no_bins_in_search_band",
                           fmin |-> lo.v, fmax |-> hi.v]]
        ELSE [err |-> NoError, f_peak |-> f_band[idx_local],
              quality |-> [peak_amp |-> X_band[idx_local],
                           second_peak_amp |-> second,
                           peak_ratio |-> <<X_band[idx_local], second>>,
                           snr_db |-> <<X_band[idx_local], Median2(X_band)>>,
                           search_band |-> <<lo.v, hi.v>>]]

\* peak_amp / (second + 1e-12) > 1 for the pair <<peak_amp, second>> kept as
\* peak_ratio: amplitudes are whole multiples of a unit larger than 1e-12,
\* for which peak_amp > second + 1e-12 is peak_amp > second
RatioAboveOne(ratio) == ratio[1] > ratio[2]

find_dominant_frequency(fr, amp, lo, hi) ==
    LET f1 == _as_1d_float(fr)
        a1 == _as_1d_float(amp)
        in_band == SelectIdx({i \in 1..Len(f1) : f1[i] >= lo.v /\ f1[i] <= hi.v})
        f_band == Take(f1, in_band)
        X_band == Take(a1, in_band)
        idx_local == ArgMax(X_band)
        X_sorted == NpSort(X_band)
        second == IF Len(X_sorted) >= 2 THEN X_sorted[Len(X_sorted) - 1] ELSE 0
    IN  IF Len(f1) = 0 \/ Len(a1) = 0
        THEN [err |-> NoError, f_peak |-> 0, quality |-> [note |-> "empty_spectrum"]]
        ELSE IF Len(f1) # Len(a1) THEN DominantFail(LengthMismatchError)
        ELSE IF SearchBandInvalid(lo, hi) THEN DominantFail(InvalidSearchBandError)
        ELSE IF in_band = <<>>
        THEN [err |-> NoError, f_peak |-> 0,
              quality |-> [note |-> "no_bins_in_search_band",
                           fmin |-> lo.v, fmax |-> hi.v]]
        ELSE [err |-> NoError, f_peak |-> f_band[idx_local],
              quality |-> [peak_amp |-> X_band[idx_local],
                           second_peak_amp |-> second,
                           peak_ratio |-> <<X_band[idx_local], second>>,
                           snr_db |-> <<X_band[idx_local], Median2(X_band)>>,
                           search_band |-> <<lo.v, hi.v>>]]

(***************************************************************************)
(* analyze_displacement_series, one action per stage.  The arguments a     *)
(* stage can fail on are fixed when the call starts; the others            *)
(* (jitter_ratio_tol, zero_pad_to, f_search_min, f_search_max, the two     *)
(* limits) are read by one stage only and are drawn when it runs.          *)
(***************************************************************************)
SearchFloor == 1000

IntRate(f) == [ty |-> "int", v |-> f]

Raise(e) == /\ pc' = "error"
            /\ err' = e

\* lines 426-430 without the fallback of lines 429-430
SearchBandAlwaysGiven(lo, hi, smin, smax) == <<smin, smax>>

\* lines 426-430: <<fmin, fmax>> handed to find_dominant_frequency
SearchBandOf(lo, hi, smin, smax) ==
    LET floor_lo == IF SearchFloor > lo THEN SearchFloor ELSE lo
        f0 == IF smin.k # "none" THEN smin ELSE Num(floor_lo)
        f1 == IF smax.k # "none" THEN smax ELSE Num(hi)
    IN  IF ~IsFinite(f0) \/ ~IsFinite(f1) \/ f0.v <= 0 \/ f0.v >= f1.v
        THEN <<Num(floor_lo), Num(hi)>>
        ELSE <<f0, f1>>

\* lines 435-443 with >= for >
AbnormalIfEqual(pp, rms, pp_limit, rms_limit) ==
    \/ pp_limit.k # "none" /\ FloatGe(pp, pp_limit)
    \/ rms_limit.k # "none" /\ FloatGe(rms, rms_limit)

\* lines 435-443
IsAbnormal(pp, rms, pp_limit, rms_limit) ==
    LET abnormal_flags ==
            (IF pp_limit.k # "none" THEN {FloatGt(pp, pp_limit)} ELSE {}) \cup
            (IF rms_limit.k # "none" THEN {FloatGt(rms, rms_limit)} ELSE {})
    IN  IF abnormal_flags # {} THEN TRUE \in abnormal_flags ELSE FALSE

\* lines 445-451 without lines 447-448
PreprocessMetaNoStageMeta(rm, fm, sm, n_raw, n_used) ==
    Merge(rm, [n_raw |-> n_raw, n_used |-> n_used])

\* lines 445-451
PreprocessMeta(rm, fm, sm, n_raw, n_used) ==
    Merge(Merge(Merge(rm, fm), sm), [n_raw |-> n_raw, n_used |-> n_used])

\* line 389
ValidateFs ==
    /\ op = "analyze_displacement_series"
    /\ pc = "validate_fs"
    /\ ran' = Append(ran, "validate_fs")
    /\ LET v == _validate_fs(fs_arg)
       IN  IF v.err # NoError
           THEN Raise(v.err) /\ UNCHANGED fs
           ELSE pc' = "sanitize" /\ fs' = v.fs /\ UNCHANGED err
    /\ UNCHANGED <<op, args, lazy, result, ret, t_raw, x_raw, t, x, resample_meta,
                   x_filt, filter_meta, A_pp_mm, A_rms_mm, freqs, X_amp,
                   spec_meta, band, fmin, fmax, f_dom, quality>>

\* lines 391-392 as they would read with the error caught and replaced
SanitizeSuppressed ==
    /\ pc = "sanitize"
    /\ ran' = Append(ran, "sanitize")
    /\ t_raw' = _as_1d_float(time_stamps)
    /\ x_raw' = _sanitize_signal(d_t_mm).x
    /\ d_t_mm' = _sanitize_signal(d_t_mm).arg
    /\ pc' = "resample"
    /\ UNCHANGED <<op, err, time_stamps, fs_arg, fan_id, low_cut, high_cut,
                   window, lazy, result, ret, t, x, resample_meta,
                   x_filt, filter_meta, A_pp_mm, A_rms_mm, freqs, X_amp,
                   spec_meta, band, fmin, fmax, f_dom, quality, fs>>

\* lines 391-392
Sanitize ==
    /\ pc = "sanitize"
    /\ ran' = Append(ran, "sanitize")
    /\ t_raw' = _as_1d_float(time_stamps)
    /\ LET s == _sanitize_signal(d_t_mm)
       IN  /\ d_t_mm' = s.arg
           /\ IF s.err # NoError
              THEN Raise(s.err) /\ UNCHANGED x_raw
              ELSE pc' = "resample" /\ x_raw' = s.x /\ UNCHANGED err
    /\ UNCHANGED <<op, time_stamps, fs_arg, fan_id, low_cut, high_cut, window,
                   lazy, result, ret, t, x, resample_meta,
                   x_filt, filter_meta, A_pp_mm, A_rms_mm, freqs, X_amp,
                   spec_meta, band, fmin, fmax, f_dom, quality, fs>>

\* jitter_ratio_tol in percent: the default, 1.0 and a negative tolerance
TolChoices == {DefaultTolPct, 100, -1}
AnalyzeTolChoices == {DefaultTolPct}

\* lines 395-400
CheckResample ==
    /\ pc = "resample"
    /\ ran' = Append(ran, "resample")
    /\ \E tol \in AnalyzeTolChoices :
        /\ jitter_ratio_tol' = tol
        /\ LET r == _check_and_resample_if_needed(t_raw, x_raw, IntRate(fs), tol)
           IN  IF r.err # NoError
               THEN Raise(r.err) /\ UNCHANGED <<t, x, resample_meta>>
               ELSE /\ pc' = "filter"
                    /\ t' = r.t
                    /\ x' = r.x
                    /\ resample_meta' = r.meta
                    /\ UNCHANGED err
    /\ UNCHANGED <<op, args, zero_pad_to, f_search_min, f_search_max, A_pp_limit,
                   A_rms_limit, result, ret, t_raw, x_raw,
                   x_filt, filter_meta, A_pp_mm, A_rms_mm, freqs, X_amp,
                   spec_meta, band, fmin, fmax, f_dom, quality, fs>>

\* lines 403-410
Filter ==
    /\ pc = "filter"
    /\ ran' = Append(ran, "filter")
    /\ \E r \in filter_signal(x, IntRate(fs), low_cut, high_cut, FilterOrder, TRUE) :
        IF r.err # NoError
        THEN Raise(r.err) /\ UNCHANGED <<x_filt, filter_meta>>
        ELSE /\ pc' = "time_amp"
             /\ x_filt' = r.x
             /\ filter_meta' = r.meta
             /\ UNCHANGED err
    /\ UNCHANGED <<op, args, lazy, result, ret, t_raw, x_raw, t, x, resample_meta,
                   A_pp_mm, A_rms_mm, freqs, X_amp,
                   spec_meta, band, fmin, fmax, f_dom, quality, fs>>

\* line 413
TimeDomainAmp ==
    /\ pc = "time_amp"
    /\ ran' = Append(ran, "time_amp")
    /\ A_pp_mm' = calculate_time_domain_amp(x_filt)[1]
    /\ A_rms_mm' = calculate_time_domain_amp(x_filt)[2]
    /\ pc' = "spectrum"
    /\ UNCHANGED <<op, err, args, lazy, result, ret, t_raw, x_raw, t, x,
                   resample_meta, x_filt, filter_meta, freqs, X_amp,
                   spec_meta, band, fmin, fmax, f_dom, quality, fs>>

ZeroPadChoices == {None, Num(8)}

\* lines 416-421
Spectrum ==
    /\ pc = "spectrum"
    /\ ran' = Append(ran, "spectrum")
    /\ \E zp \in ZeroPadChoices :
        /\ zero_pad_to' = zp
        /\ \E r \in calculate_fft_spectrum(x_filt, IntRate(fs), window, zp) :
            IF r.err # NoError
            THEN Raise(r.err) /\ UNCHANGED <<freqs, X_amp, spec_meta>>
            ELSE /\ pc' = "search_band"
                 /\ freqs' = r.freqs
                 /\ X_amp' = r.X_amp
                 /\ spec_meta' = r.meta
                 /\ UNCHANGED err
    /\ UNCHANGED <<op, args, f_search_min, f_search_max, A_pp_limit, A_rms_limit,
                   jitter_ratio_tol, result, ret, t_raw, x_raw, t, x,
                   resample_meta, x_filt, filter_meta, A_pp_mm, A_rms_mm,
                   band, fmin, fmax, f_dom, quality, fs>>

\* <<f_search_min, f_search_max>>: absent, one given, 0.3-1.5 Hz, inverted,
\* a non-positive minimum, a non-finite maximum
SearchChoices == {<<None, None>>, <<None, Num(1500000)>>, <<Num(300000), None>>,
                  <<Num(300000), Num(1500000)>>, <<Num(300000), Num(200000)>>,
                  <<Num(0), Num(1500000)>>, <<Num(300000), NaN>>}

\* lines 425-430 with the band taken from the filter's metadata instead of
\* line 425's call of _clamp_band
SearchBandFromFilterMeta ==
    /\ pc = "search_band"
    /\ ran' = Append(ran, "search_band")
    /\ \E sc \in SearchChoices :
        /\ f_search_min' = sc[1]
        /\ f_search_max' = sc[2]
        /\ LET b == IF "band_used" \in DOMAIN filter_meta
                    THEN filter_meta["band_used"]
                    ELSE <<low_cut.v, high_cut.v>>
               sb == SearchBandOf(b[1], b[2], sc[1], sc[2])
           IN  /\ pc' = "find_dominant"
               /\ band' = b
               /\ fmin' = sb[1]
               /\ fmax' = sb[2]
               /\ UNCHANGED err
    /\ UNCHANGED <<op, args, zero_pad_to, A_pp_limit, A_rms_limit,
                   jitter_ratio_tol, result, ret, t_raw, x_raw, t, x,
                   resample_meta, x_filt, filter_meta, A_pp_mm, A_rms_mm,
                   freqs, X_amp, spec_meta, f_dom, quality, fs>>

\* lines 425-430
SearchBand ==
    /\ pc = "search_band"
    /\ ran' = Append(ran, "search_band")
    /\ \E sc \in SearchChoices :
        /\ f_search_min' = sc[1]
        /\ f_search_max' = sc[2]
        /\ LET b == _clamp_band(low_cut, high_cut, IntRate(fs))
               sb == SearchBandOf(b.low, b.high, sc[1], sc[2])
           IN  IF b.err # NoError
               THEN Raise(b.err) /\ UNCHANGED <<band, fmin, fmax>>
               ELSE /\ pc' = "find_dominant"
                    /\ band' = <<b.low, b.high>>
                    /\ fmin' = sb[1]
                    /\ fmax' = sb[2]
                    /\ UNCHANGED err
    /\ UNCHANGED <<op, args, zero_pad_to, A_pp_limit, A_rms_limit,
                   jitter_ratio_tol, result, ret, t_raw, x_raw, t, x,
                   resample_meta, x_filt, filter_meta, A_pp_mm, A_rms_mm,
                   freqs, X_amp, spec_meta, f_dom, quality, fs>>

\* line 432
FindDominant ==
    /\ pc = "find_dominant"
    /\ ran' = Append(ran, "find_dominant")
    /\ LET r == find_dominant_frequency(freqs, X_amp, fmin, fmax)
       IN  IF r.err # NoError
           THEN Raise(r.err) /\ UNCHANGED <<f_dom, quality>>
           ELSE /\ pc' = "assemble"
                /\ f_dom' = r.f_peak
                /\ quality' = r.quality
                /\ UNCHANGED err
    /\ UNCHANGED <<op, args, lazy, result, ret, t_raw, x_raw, t, x, resample_meta,
                   x_filt, filter_meta, A_pp_mm, A_rms_mm, freqs, X_amp,
                   spec_meta, band, fmin, fmax, fs>>

\* <<A_pp_limit, A_rms_limit>>
LimitChoices == {<<None, None>>, <<Num(24), None>>, <<None, Num(12)>>,
                 <<Num(12), Num(30)>>, <<Num(24), Num(12)>>, <<NaN, Num(30)>>}

\* lines 434-463
Assemble ==
    /\ pc = "assemble"
    /\ ran' = Append(ran, "assemble")
    /\ \E lim \in LimitChoices :
        /\ A_pp_limit' = lim[1]
        /\ A_rms_limit' = lim[2]
        /\ result' = [A_pp_mm |-> A_pp_mm,
                      A_rms_mm |-> A_rms_mm,
                      f_dominant_hz |-> f_dom,
                      f_spectrum |-> freqs,
                      X_spectrum |-> X_amp,
                      is_abnormal |-> IsAbnormal(A_pp_mm, A_rms_mm, lim[1], lim[2]),
                      fan_id |-> fan_id,
                      quality |-> quality,
                      preprocess_meta |->
                          PreprocessMeta(resample_meta, filter_meta, spec_meta,
                                         Len(t_raw), Len(t))]
    /\ pc' = "done"
    /\ UNCHANGED <<op, err, args, zero_pad_to, f_search_min, f_search_max,
                   jitter_ratio_tol, ret, locals>>

(***************************************************************************)
(* Stand-alone calls of the building blocks.                               *)
(***************************************************************************)
Return(r) == /\ ret' = r
             /\ err' = r.err
             /\ pc' = IF r.err # NoError THEN "error" ELSE "done"
             /\ UNCHANGED <<op, ran, args, lazy, locals, result>>

Call_validate_fs ==
    /\ pc = "call"
    /\ op = "_validate_fs"
    /\ Return(_validate_fs(fs_arg))

Call_sanitize_signal ==
    /\ pc = "call"
    /\ op = "_sanitize_signal"
    /\ LET r == _sanitize_signal(d_t_mm)
       IN  /\ ret' = r
           /\ err' = r.err
           /\ pc' = IF r.err # NoError THEN "error" ELSE "done"
           /\ d_t_mm' = r.arg
    /\ UNCHANGED <<op, ran, time_stamps, fs_arg, fan_id, low_cut, high_cut,
                   window, lazy, locals, result>>

Call_check_and_resample_if_needed ==
    /\ pc = "call"
    /\ op = "_check_and_resample_if_needed"
    /\ Return(_check_and_resample_if_needed(time_stamps, d_t_mm, fs_arg,
                                            jitter_ratio_tol))

Call_clamp_band ==
    /\ pc = "call"
    /\ op = "_clamp_band"
    /\ Return(_clamp_band(low_cut, high_cut, fs_arg))

\* the order argument of a stand-alone call: the default and an order of 0
OrderChoices == {FilterOrder, 0}

Call_filter_signal ==
    /\ pc = "call"
    /\ op = "filter_signal"
    /\ \E order \in OrderChoices, detrend \in BOOLEAN :
        \E r \in filter_signal(d_t_mm, fs_arg, low_cut, high_cut, order, detrend) :
            Return(r)

Call_calculate_fft_spectrum ==
    /\ pc = "call"
    /\ op = "calculate_fft_spectrum"
    /\ \E r \in calculate_fft_spectrum(d_t_mm, fs_arg, window, zero_pad_to) :
        Return(r)

Call_calculate_time_domain_amp ==
    /\ pc = "call"
    /\ op = "calculate_time_domain_amp"
    /\ LET a == calculate_time_domain_amp(d_t_mm)
       IN  Return([err |-> NoError, A_pp_mm |-> a[1], A_rms_mm |-> a[2]])

Call_find_dominant_frequency ==
    /\ pc = "call"
    /\ op = "find_dominant_frequency"
    /\ Return(find_dominant_frequency(freqs, X_amp, fmin, fmax))

(***************************************************************************)
(* Inputs.                                                                 *)
(***************************************************************************)
SeqsUpTo(S, n) == UNION {[1..m -> S] : m \in 0..n}

Rates == {[ty |-> "int", v |-> -1], [ty |-> "int", v |-> 0],
          [ty |-> "int", v |-> 2], [ty |-> "int", v |-> 4],
          [ty |-> "float", v |-> 4], [ty |-> "str", v |-> 0],
          [ty |-> "none", v |-> 0]}
AnalyzeRates == {[ty |-> "int", v |-> 0], [ty |-> "int", v |-> 4],
                 [ty |-> "float", v |-> 4]}
TimeVals == {0, 1, 8}
Samples == {NaN, Num(12)}
WideSamples == {NaN, PInf, NInf, Num(-12), Num(0), Num(24)}
FiniteSamples == {Num(0), Num(12)}
\* <<low_cut, high_cut>>: 0.2-5 Hz, 0-0.0005 Hz, a non-finite edge,
\* an inverted band, a missing edge
BandChoices == {<<Num(200000), Num(5000000)>>, <<Num(0), Num(500)>>,
                <<NaN, Num(5000000)>>, <<Num(1000000), Num(500000)>>,
                <<None, Num(5000000)>>}
CutChoices == {None, NaN, PInf, Num(-1), Num(0), Num(500), Num(200000),
               Num(1900000), Num(5000000)}
WindowChoices == {"hann", "none", "bogus"}
FanIds == {"fan_a"}

NoSpectrum ==
    /\ freqs = <<>>
    /\ X_amp = <<>>
    /\ fmin = None
    /\ fmax = None

UnsetButSpectrum ==
    /\ err = NoError
    /\ ran = <<>>
    /\ zero_pad_to = None
    /\ f_search_min = None
    /\ f_search_max = None
    /\ A_pp_limit = None
    /\ A_rms_limit = None
    /\ t_raw = <<>>
    /\ x_raw = <<>>
    /\ t = <<>>
    /\ x = <<>>
    /\ resample_meta = EmptyDict
    /\ x_filt = <<>>
    /\ filter_meta = EmptyDict
    /\ A_pp_mm = None
    /\ A_rms_mm = None
    /\ spec_meta = EmptyDict
    /\ band = <<0, 0>>
    /\ f_dom = 0
    /\ quality = EmptyDict
    /\ fs = 0
    /\ result = EmptyDict
    /\ ret = EmptyDict

\* frequency axes: none, the axes np.fft.rfftfreq gives at 2 Hz for 1 to
\* 2 * MaxLen points, and one axis that is not ascending
FreqAxes == {<<>>, <<1000000, 500000, 0>>} \cup
            {RfftFreq(n, 2) : n \in 1..(2 * MaxLen)}
Amplitudes == {0, 12, 24}
\* <<fmin, fmax>>: edges on bins, between bins, wide, a zero and a negative
\* minimum, an empty interval, non-finite edges
DominantBands == {<<Num(500000), Num(1000000)>>, <<Num(1), Num(400000)>>,
                  <<Num(600000), Num(900000)>>, <<Num(1), Num(2000000)>>,
                  <<Num(0), Num(1000000)>>, <<Num(1000000), Num(1000000)>>,
                  <<NaN, Num(1000000)>>, <<Num(500000), PInf>>,
                  <<Num(-1), NInf>>}

Unset == UnsetButSpectrum /\ NoSpectrum

InitAnalyze ==
    /\ op = "analyze_displacement_series"
    /\ pc = "validate_fs"
    /\ time_stamps \in SeqsUpTo(TimeVals, MaxLen)
    /\ d_t_mm \in SeqsUpTo(Samples, MaxLen)
    /\ fs_arg \in AnalyzeRates
    /\ fan_id \in FanIds
    /\ \E b \in BandChoices : low_cut = b[1] /\ high_cut = b[2]
    /\ window \in WindowChoices
    /\ jitter_ratio_tol = DefaultTolPct
    /\ Unset

InitAnalyzeSmall ==
    /\ op = "analyze_displacement_series"
    /\ pc = "validate_fs"
    /\ time_stamps \in SeqsUpTo({0}, 1)
    /\ d_t_mm \in SeqsUpTo({Num(12)}, 1)
    /\ fs_arg \in Rates
    /\ fan_id \in FanIds
    /\ low_cut = Num(200000)
    /\ high_cut = Num(5000000)
    /\ window = "hann"
    /\ jitter_ratio_tol = DefaultTolPct
    /\ Unset

NoSeries == time_stamps = <<>> /\ d_t_mm = <<>>
NoBand == low_cut = None /\ high_cut = None

InitCalls ==
    /\ pc = "call"
    /\ fan_id \in FanIds
    /\ UnsetButSpectrum
    /\ \/ /\ NoSpectrum
          /\ \/ /\ op = "_validate_fs"
                /\ fs_arg \in Rates
                /\ NoSeries /\ NoBand
                /\ window = "hann" /\ jitter_ratio_tol = DefaultTolPct
             \/ /\ op = "_sanitize_signal"
                /\ d_t_mm \in SeqsUpTo(WideSamples, MaxLen + 1)
                /\ time_stamps = <<>>
                /\ fs_arg = IntRate(4)
                /\ NoBand
                /\ window = "hann" /\ jitter_ratio_tol = DefaultTolPct
             \/ /\ op = "_check_and_resample_if_needed"
                /\ time_stamps \in SeqsUpTo(TimeVals, MaxLen)
                /\ d_t_mm \in SeqsUpTo(FiniteSamples, MaxLen)
                /\ fs_arg \in Rates
                /\ jitter_ratio_tol \in TolChoices
                /\ NoBand
                /\ window = "hann"
             \/ /\ op = "_clamp_band"
                /\ low_cut \in CutChoices
                /\ high_cut \in CutChoices
                /\ fs_arg \in Rates
                /\ NoSeries
                /\ window = "hann" /\ jitter_ratio_tol = DefaultTolPct
             \/ /\ op = "filter_signal"
                /\ d_t_mm \in SeqsUpTo(Samples, MaxLen)
                /\ time_stamps = <<>>
                /\ fs_arg \in Rates
                /\ \E b \in BandChoices : low_cut = b[1] /\ high_cut = b[2]
                /\ window = "hann" /\ jitter_ratio_tol = DefaultTolPct
             \/ /\ op = "calculate_time_domain_amp"
                /\ d_t_mm \in SeqsUpTo(WideSamples, MaxLen)
                /\ time_stamps = <<>>
                /\ fs_arg = IntRate(4)
                /\ NoBand
                /\ window = "hann" /\ jitter_ratio_tol = DefaultTolPct
             \/ /\ op = "calculate_fft_spectrum"
                /\ d_t_mm \in SeqsUpTo(Samples, MaxLen)
                /\ time_stamps = <<>>
                /\ fs_arg \in Rates
                /\ NoBand
                /\ window \in WindowChoices \cup {WindowNone}
                /\ jitter_ratio_tol = DefaultTolPct
       \/ /\ op = "find_dominant_frequency"
          /\ freqs \in FreqAxes
          /\ X_amp \in SeqsUpTo(Amplitudes, MaxLen + 1)
          /\ \E sb \in DominantBands : fmin = sb[1] /\ fmax = sb[2]
          /\ fs_arg = IntRate(2)
          /\ NoSeries /\ NoBand
          /\ window = "hann" /\ jitter_ratio_tol = DefaultTolPct

Init == InitAnalyze

InitOps == InitCalls \/ InitAnalyzeSmall

Next ==
    \/ ValidateFs
    \/ Sanitize
    \/ CheckResample
    \/ Filter
    \/ TimeDomainAmp
    \/ Spectrum
    \/ SearchBand
    \/ FindDominant
    \/ Assemble

NextOps ==
    \/ Next
    \/ Call_validate_fs
    \/ Call_sanitize_signal
    \/ Call_check_and_resample_if_needed
    \/ Call_clamp_band
    \/ Call_filter_signal
    \/ Call_calculate_fft_spectrum
    \/ Call_calculate_time_domain_amp
    \/ Call_find_dominant_frequency

\* calls of analyze_displacement_series
Spec == Init /\ [][Next]_vars

\* calls of the building blocks, and of analyze_displacement_series on the
\* shortest series
SpecOps == InitOps /\ [][NextOps]_vars

(***************************************************************************)
(* Properties.                                                             *)
(***************************************************************************)
StageOrder == <<"validate_fs", "sanitize", "resample", "filter", "time_amp",
                "spectrum", "search_band", "find_dominant", "assemble">>

\* the first error, in the order of the design, among the stages whose
\* outcome the arguments alone decide: rate, sanitize, time base, band clamp
FirstArgumentError ==
    LET e1 == _validate_fs(fs_arg).err
        s == _sanitize_signal(d_t_mm)
        r == _check_and_resample_if_needed(time_stamps, s.x, fs_arg,
                                           jitter_ratio_tol)
        b == _clamp_band(low_cut, high_cut, fs_arg)
    IN  IF e1 # NoError THEN e1
        ELSE IF s.err # NoError THEN s.err
        ELSE IF r.err # NoError THEN r.err
        ELSE b.err

\* the spectral estimate fails: a signal to transform and an unknown window
WindowFails ==
    LET s == _sanitize_signal(d_t_mm)
        r == _check_and_resample_if_needed(time_stamps, s.x, fs_arg,
                                           jitter_ratio_tol)
    IN  /\ Len(r.x) > 0
        /\ window \notin ValidWindows \cup {"none", WindowNone}

\* the stage an error kind comes from
StagesOf(e) ==
    CASE e = InvalidRateError -> {"validate_fs"}
      [] e = AllInvalidError -> {"sanitize"}
      [] e \in {ShapeMismatchError, NonMonotonicTimeError,
                DegenerateTimeBaseError} -> {"resample"}
      [] e = InvalidBandError -> {"filter", "search_band"}
      [] e = FilterLibraryError -> {"filter"}
      [] e = InvalidWindowError -> {"spectrum"}
      [] e = InvalidSearchBandError -> {"find_dominant"}
      [] OTHER -> {}

\* C1: analyze_displacement_series fails exactly when some stage fails; the
\* error the caller sees is the unchanged error of the first failing stage in
\* the order rate check, sanitize, time base, band clamp + filter, spectral
\* estimate, dominant-frequency search; and the stages that ran are the ones
\* up to the failing one, none after it.
C1_ErrorPrecedence ==
    /\ pc = "error" =>
        /\ op = "analyze_displacement_series" =>
            /\ ran = SubSeq(StageOrder, 1, Len(ran))
            /\ ran[Len(ran)] \in StagesOf(err)
            /\ result = EmptyDict
            /\ IF FirstArgumentError # NoError THEN err = FirstArgumentError
               ELSE IF err = FilterLibraryError THEN Len(x) > 0
               ELSE IF WindowFails THEN err = InvalidWindowError
               ELSE /\ err = InvalidSearchBandError
                    /\ Len(freqs) > 0
                    /\ SearchBandInvalid(fmin, fmax)
    /\ pc = "done" =>
        /\ op = "analyze_displacement_series" =>
            /\ ran = StageOrder
            /\ err = NoError
            /\ FirstArgumentError = NoError
            /\ ~WindowFails
            /\ Len(freqs) > 0 => ~SearchBandInvalid(fmin, fmax)

\* C1 witness: several stages would fail (no finite sample, an illegal band,
\* an unknown window) and the caller sees the sanitizer's error
C1_Witness ==
    /\ pc = "error"
    /\ err = AllInvalidError
    /\ _clamp_band(low_cut, high_cut, fs_arg).err = InvalidBandError
    /\ window = "bogus"
    /\ Len(time_stamps) # Len(d_t_mm)

\* the search band of this call has been derived (lines 425-430 have run and
\* have not raised)
SearchBandSet ==
    /\ op = "analyze_displacement_series"
    /\ Len(ran) >= 7
    /\ ~(pc = "error" /\ Len(ran) = 7)

SearchBoundsGiven == f_search_min.k # "none" /\ f_search_max.k # "none"

Exceeds(measured, limit) == limit.k = "num" /\ measured.k = "num" /\ measured.v > limit.v

\* C3: is_abnormal is true exactly when a supplied peak-to-peak limit or a
\* supplied RMS limit is strictly exceeded; with no limit it is false, and a
\* metric equal to its limit does not raise the flag.
C3_Abnormal ==
    (op = "analyze_displacement_series" /\ pc = "done") =>
        /\ result.is_abnormal <=> (\/ Exceeds(result.A_pp_mm, A_pp_limit)
                                   \/ Exceeds(result.A_rms_mm, A_rms_limit))
        /\ (A_pp_limit.k = "none" /\ A_rms_limit.k = "none") => ~result.is_abnormal
        /\ (/\ A_pp_limit.k = "num"
            /\ result.A_pp_mm.v <= A_pp_limit.v
            /\ A_rms_limit.k = "num"
            /\ result.A_rms_mm.v <= A_rms_limit.v) => ~result.is_abnormal

\* C3 witness: both limits are supplied, the peak-to-peak equals its limit and
\* only the RMS exceeds its own: the flag is raised
C3_Witness ==
    /\ op = "analyze_displacement_series"
    /\ pc = "done"
    /\ A_pp_limit.k = "num"
    /\ A_rms_limit.k = "num"
    /\ result.A_pp_mm.v = A_pp_limit.v
    /\ result.A_rms_mm.v > A_rms_limit.v
    /\ result.is_abnormal

LegalBand == _clamp_band(low_cut, high_cut, fs_arg).err = NoError

NoBinInSearchBand ==
    /\ Len(freqs) > 0
    /\ ~SearchBandInvalid(fmin, fmax)
    /\ \A i \in 1..Len(freqs) : freqs[i] < fmin.v \/ freqs[i] > fmax.v

\* C4: for an empty displacement series with a valid rate and a legal band,
\* the call raises nothing and returns peak-to-peak 0, RMS 0, dominant
\* frequency 0 and empty spectrum arrays, with a note in quality and in the
\* processing metadata; and a search band holding no spectral bin gives
\* dominant frequency 0 with a note and no error.
C4_DegenerateInput ==
    /\ (/\ op = "analyze_displacement_series"
        /\ d_t_mm = <<>>
        /\ _validate_fs(fs_arg).err = NoError
        /\ LegalBand) =>
            /\ pc # "error"
            /\ pc = "done" =>
                /\ result.A_pp_mm = Num(0)
                /\ result.A_rms_mm = Num(0)
                /\ result.f_dominant_hz = 0
                /\ result.f_spectrum = <<>>
                /\ result.X_spectrum = <<>>
                /\ "note" \in DOMAIN result.quality
                /\ "note" \in DOMAIN result.preprocess_meta
    /\ (/\ op = "analyze_displacement_series"
        /\ Len(ran) >= 8
        /\ NoBinInSearchBand) =>
            /\ pc # "error"
            /\ f_dom = 0
            /\ "note" \in DOMAIN quality
            /\ quality["note"] = "no_bins_in_search_band"
            /\ pc = "done" => result.f_dominant_hz = 0

\* C4 witness: an empty series with time stamps, an unknown window and an
\* invalid explicit search band still returns the zero-valued result
C4_Witness ==
    /\ op = "analyze_displacement_series"
    /\ pc = "done"
    /\ d_t_mm = <<>>
    /\ window = "bogus"
    /\ f_search_max.k = "nan"
    /\ result.f_dominant_hz = 0
    /\ result.quality["note"] = "empty_spectrum"

RecordedKeys == {"resampled", "jitter_ratio", "t_start", "t_end", "band_used",
                 "order", "window", "coherent_gain", "nfft", "n_raw", "n_used"}

\* C5 as stated: the metadata of every result records the resampling flag,
\* the jitter ratio, the time-span bounds, the band used, the filter order,
\* the window name, the coherent gain, the FFT length and both sample counts.
C5_Original ==
    (op = "analyze_displacement_series" /\ pc = "done") =>
        /\ RecordedKeys \subseteq DOMAIN result.preprocess_meta
        /\ result.preprocess_meta["jitter_ratio"].k # "none"
        /\ result.preprocess_meta["t_start"].k # "none"
        /\ result.preprocess_meta["t_end"].k # "none"

\* C5 amended: every result's metadata holds the keys resampled, jitter_ratio,
\* t_start, t_end, n_raw and n_used; jitter_ratio, t_start and t_end hold
\* values exactly when both the time stamps and the displacement series are
\* non-empty (None otherwise); band_used, order, window, coherent_gain and
\* nfft are recorded exactly when the displacement series is non-empty, and a
\* note "empty_signal" stands in their place when it is empty.
C5_Metadata ==
    (op = "analyze_displacement_series" /\ pc = "done") =>
        LET m == result.preprocess_meta
            timed == time_stamps # <<>> /\ d_t_mm # <<>>
        IN  /\ {"resampled", "jitter_ratio", "t_start", "t_end", "n_raw",
                "n_used"} \subseteq DOMAIN m
            /\ m["resampled"] \in BOOLEAN
            /\ timed <=> m["jitter_ratio"].k = "num"
            /\ timed <=> m["t_start"].k = "num"
            /\ timed <=> m["t_end"].k = "num"
            /\ m["n_raw"] = Len(time_stamps)
            /\ IF d_t_mm # <<>>
               THEN /\ {"band_used", "order", "window", "coherent_gain",
                        "nfft"} \subseteq DOMAIN m
                    /\ m["order"] = FilterOrder
                    /\ m["band_used"] = band
                    /\ m["window"] = window
                    /\ m["nfft"] >= Len(x)
                    /\ "note" \notin DOMAIN m
               ELSE /\ DOMAIN m \cap {"band_used", "order", "window",
                                      "coherent_gain", "nfft"} = {}
                    /\ "note" \in DOMAIN m
                    /\ m["note"] = "empty_signal"

\* C5 witness: a resampled series, whose metadata records every decision
C5_Witness ==
    /\ op = "analyze_displacement_series"
    /\ pc = "done"
    /\ result.preprocess_meta["resampled"]
    /\ result.preprocess_meta["n_used"] > result.preprocess_meta["n_raw"]
    /\ RecordedKeys \subseteq DOMAIN result.preprocess_meta

RateOps == {"analyze_displacement_series", "_check_and_resample_if_needed",
            "_clamp_band", "filter_signal", "calculate_fft_spectrum"}

Called == pc \notin {"call", "validate_fs"}

\* a rate that is not a number, or is not greater than 0
RateNonNumericOrNonPositive(f) == f.ty \notin {"int", "float"} \/ f.v <= 0

\* C6: every operation that takes a sampling rate rejects a non-numeric or
\* non-positive rate with the invalid-rate error before it looks at the
\* signal (whatever the signal, the band and the window are, and before any
\* other stage runs), and never rejects a positive integer rate.
C6_RateValidation ==
    (op \in RateOps /\ Called) =>
        /\ RateNonNumericOrNonPositive(fs_arg) =>
            /\ pc = "error"
            /\ err = InvalidRateError
            /\ op = "analyze_displacement_series" => ran = <<"validate_fs">>
        /\ (fs_arg.ty = "int" /\ fs_arg.v > 0) => err # InvalidRateError

\* C6 witness: the filter is called with a rate of 0 and a signal without
\* any finite sample, and fails on the rate
C6_Witness ==
    /\ op = "filter_signal"
    /\ pc = "error"
    /\ fs_arg = IntRate(0)
    /\ d_t_mm # <<>>
    /\ FiniteIdx(d_t_mm) = {}
    /\ err = InvalidRateError

\* C7: for a non-empty input with at least one finite sample _sanitize_signal
\* returns a sequence of the same length whose entries are all finite and in
\* which every finite input entry is unchanged at its index; an all-finite
\* input is returned unchanged.
C7_SanitizerOutput ==
    (/\ op = "_sanitize_signal"
     /\ Called
     /\ \E i \in 1..Len(d_t_mm) : d_t_mm[i].k = "num") =>
        /\ pc = "done"
        /\ Len(ret.x) = Len(d_t_mm)
        /\ \A i \in 1..Len(d_t_mm) :
            /\ ret.x[i].k = "num"
            /\ d_t_mm[i].k = "num" => ret.x[i] = d_t_mm[i]
        /\ (\A i \in 1..Len(d_t_mm) : d_t_mm[i].k = "num") => ret.x = d_t_mm

\* C7 witness: a leading and an inner non-finite sample have been repaired
C7_Witness ==
    /\ op = "_sanitize_signal"
    /\ pc = "done"
    /\ Len(d_t_mm) = 3
    /\ d_t_mm[1].k = "nan"
    /\ d_t_mm[2].k = "pinf"
    /\ d_t_mm[3].k = "num"
    /\ ret.x # d_t_mm

\* C8: _sanitize_signal fails with the all-invalid error exactly when the
\* input is non-empty and holds no finite value; an empty input returns an
\* empty output and no error.
C8_SanitizerFailure ==
    (op = "_sanitize_signal" /\ Called) =>
        /\ (pc = "error") <=>
               (d_t_mm # <<>> /\ \A i \in 1..Len(d_t_mm) : d_t_mm[i].k # "num")
        /\ pc = "error" => err = AllInvalidError
        /\ d_t_mm = <<>> => (pc = "done" /\ err = NoError /\ ret.x = <<>>)

\* C8 witness: an input of NaN and infinities only has been rejected
C8_Witness ==
    /\ op = "_sanitize_signal"
    /\ pc = "error"
    /\ err = AllInvalidError
    /\ Len(d_t_mm) >= 2
    /\ {d_t_mm[i].k : i \in 1..Len(d_t_mm)} = {"nan", "ninf"}

\* C9 as stated: whenever the time stamps and the values differ in length
\* (whatever the two lengths are), _check_and_resample_if_needed, given a
\* valid rate, fails with the shape-mismatch error and returns no series.
C9_ShapeMismatch ==
    (/\ op = "_check_and_resample_if_needed"
     /\ Called
     /\ _validate_fs(fs_arg).err = NoError
     /\ Len(time_stamps) # Len(d_t_mm)) =>
        /\ pc = "error"
        /\ err = ShapeMismatchError

\* what the code does on C9's case: the mismatch is reported only when both
\* lengths are positive; with exactly one of the two empty the call returns
\* the two arrays as they are
C9_AsCoded ==
    (/\ op = "_check_and_resample_if_needed"
     /\ Called
     /\ _validate_fs(fs_arg).err = NoError
     /\ Len(time_stamps) # Len(d_t_mm)) =>
        IF Len(time_stamps) > 0 /\ Len(d_t_mm) > 0
        THEN pc = "error" /\ err = ShapeMismatchError
        ELSE pc = "done" /\ ret.t = time_stamps /\ ret.x = d_t_mm

HasDuplicates(s) == \E i, j \in 1..Len(s) : i # j /\ s[i] = s[j]

Pairs(ts, xs) == {<<ts[i], xs[i]>> : i \in 1..Len(ts)}

\* C10: given a valid rate and as many time stamps as values, a time base
\* that is not strictly increasing is reordered together with its values by
\* one permutation: the time stamps worked on (returned, when the series is
\* not resampled) are strictly increasing and every value is still paired
\* with its time stamp (on a resampled grid, a grid point that is an input
\* time stamp carries that time stamp's value); two equal time stamps make
\* the call fail with the non-monotonic-time error.
C10_TimeOrdering ==
    (/\ op = "_check_and_resample_if_needed"
     /\ Called
     /\ _validate_fs(fs_arg).err = NoError
     /\ Len(time_stamps) = Len(d_t_mm)
     /\ Len(time_stamps) > 0) =>
        IF HasDuplicates(time_stamps)
        THEN pc = "error" /\ err = NonMonotonicTimeError
        ELSE /\ pc = "done"
             /\ ~NotStrictlyIncreasing(ret.t)
             /\ ret.meta["t_start"] = Num(MinOf(Range(time_stamps)))
             /\ ret.meta["t_end"] = Num(MaxOf(Range(time_stamps)))
             /\ ~ret.meta["resampled"] =>
                    /\ Len(ret.t) = Len(time_stamps)
                    /\ Pairs(ret.t, ret.x) = Pairs(time_stamps, d_t_mm)
             /\ ret.meta["resampled"] =>
                    \A k \in 1..Len(ret.t), i \in 1..Len(time_stamps) :
                        ret.t[k] = time_stamps[i] => ret.x[k] = d_t_mm[i]

\* C10 witness: three time stamps in descending order with different values
\* have been reordered
C10_Witness ==
    /\ op = "_check_and_resample_if_needed"
    /\ pc = "done"
    /\ time_stamps = <<8, 1, 0>>
    /\ d_t_mm = <<Num(0), Num(12), Num(12)>>
    /\ ~ret.meta["resampled"]
    /\ ret.t = <<0, 1, 8>>
    /\ ret.x = <<Num(12), Num(12), Num(0)>>

\* a call of _check_and_resample_if_needed that got as far as line 141 and
\* found the jitter ratio of the (ordered) time base within the tolerance
JitterAccepted ==
    /\ op = "_check_and_resample_if_needed"
    /\ Called
    /\ pc = "done"
    /\ ShapeCheck(time_stamps, d_t_mm) = NoError
    /\ JitterWithin(Diff(SortByTime(time_stamps, d_t_mm).t), jitter_ratio_tol)

\* C11 as stated: whenever the computed jitter ratio is within the
\* tolerance, the returned time and value arrays are the arrays passed in,
\* element for element and in the same order, and the metadata says
\* resampled = false.
C11_Original ==
    JitterAccepted =>
        /\ ret.t = time_stamps
        /\ ret.x = d_t_mm
        /\ ~ret.meta["resampled"]

\* C11: whenever the computed jitter ratio is within the tolerance, the
\* metadata says resampled = false and the returned arrays are the arrays
\* passed in, reordered together by ascending time stamp: the time stamps
\* are the sorted input time stamps, every value keeps its time stamp, and
\* for an input that is already strictly increasing both arrays are the
\* input element for element.
C11_NoResample ==
    JitterAccepted =>
        /\ ~ret.meta["resampled"]
        /\ ret.t = NpSort(time_stamps)
        /\ Len(ret.x) = Len(d_t_mm)
        /\ Pairs(ret.t, ret.x) = Pairs(time_stamps, d_t_mm)
        /\ ~NotStrictlyIncreasing(time_stamps) =>
               ret.t = time_stamps /\ ret.x = d_t_mm

\* C11 witness: an out-of-order, irregular time base whose jitter ratio
\* (0.75) is within a tolerance of 1.0 at a rate that would allow
\* resampling (9 target samples) has come back ordered and not resampled
C11_Witness ==
    /\ JitterAccepted
    /\ time_stamps = <<8, 0, 1>>
    /\ d_t_mm = <<Num(0), Num(12), Num(0)>>
    /\ fs_arg = IntRate(4)
    /\ jitter_ratio_tol = 100
    /\ ret.t = <<0, 1, 8>>
    /\ ret.x = <<Num(12), Num(0), Num(0)>>

\* a call of _clamp_band with a positive integer rate
ClampCalled ==
    /\ op = "_clamp_band"
    /\ Called
    /\ _validate_fs(fs_arg).err = NoError

\* C12: for a positive integer rate, whenever _clamp_band returns, the
\* request was finite and the returned pair satisfies
\* 0 < low < high <= 0.5 * rate * margin, with low = max(requested low, 1e-6)
\* and high = min(requested high, Nyquist * margin); the metadata holds the
\* original request, the Nyquist value and the band used.
C12_BandClamp ==
    (ClampCalled /\ pc = "done") =>
        /\ IsFinite(low_cut) /\ IsFinite(high_cut)
        /\ 0 < ret.low
        /\ ret.low < ret.high
        /\ 2 * 100 * ret.high <= fs_arg.v * FreqScale * MarginPct
        /\ ret.low = MaxOf({low_cut.v, Eps})
        /\ ret.high = MinOf({high_cut.v, (fs_arg.v * FreqScale * MarginPct) \div 200})
        /\ ret.meta["band_input"] = <<low_cut.v, high_cut.v>>
        /\ 2 * ret.meta["nyquist"] = fs_arg.v * FreqScale
        /\ ret.meta["band_used"] = <<ret.low, ret.high>>

\* C12 witness: a request of [0, 5 Hz] at 4 Hz has come back as
\* [1e-6 Hz, 1.9 Hz], both edges moved
C12_Witness ==
    /\ ClampCalled
    /\ pc = "done"
    /\ fs_arg = IntRate(4)
    /\ low_cut = Num(0)
    /\ high_cut = Num(5000000)
    /\ ret.low = 1
    /\ ret.high = 1900000
    /\ ret.meta["band_input"] = <<0, 5000000>>

\* the edges after the clamp are degenerate: low >= high
ClampedDegenerate ==
    MaxOf({low_cut.v, Eps})
        >= MinOf({high_cut.v, (fs_arg.v * FreqScale * MarginPct) \div 200})

\* C13: for a positive integer rate, _clamp_band fails with the
\* invalid-band error exactly when a cut-off is missing or non-finite or the
\* clamped edges satisfy low >= high, which is the case for a requested high
\* at or below 1e-6 and for a requested low at or above Nyquist * margin; it
\* fails with no other error and a band it returns has low < high.
C13_BandRejection ==
    ClampCalled =>
        /\ pc \in {"done", "error"}
        /\ pc = "error" => err = InvalidBandError
        /\ pc = "error" <=>
              \/ low_cut.k = "none" \/ high_cut.k = "none"
              \/ ~IsFinite(low_cut) \/ ~IsFinite(high_cut)
              \/ ClampedDegenerate
        /\ (IsFinite(high_cut) /\ high_cut.v <= Eps) => pc = "error"
        /\ (IsFinite(low_cut) /\ 200 * low_cut.v >= fs_arg.v * FreqScale * MarginPct)
              => pc = "error"
        /\ pc = "done" => ret.low < ret.high

\* C13 witness: a finite request whose low edge is exactly Nyquist * margin
\* (1.9 Hz at 4 Hz) has been rejected
C13_Witness ==
    /\ ClampCalled
    /\ pc = "error"
    /\ err = InvalidBandError
    /\ fs_arg = IntRate(4)
    /\ low_cut = Num(1900000)
    /\ high_cut = Num(5000000)

\* C14: filter_signal called with an empty signal and a valid rate returns
\* an empty output together with the note "empty_signal" and raises no
\* error, whatever the band edges (missing, non-finite or inverted ones
\* included), the order and the detrend flag.
C14_EmptyFilterInput ==
    (/\ op = "filter_signal"
     /\ Called
     /\ _validate_fs(fs_arg).err = NoError
     /\ Len(d_t_mm) = 0) =>
        /\ pc = "done"
        /\ err = NoError
        /\ ret.x = <<>>
        /\ DOMAIN ret.meta = {"note"}
        /\ ret.meta["note"] = "empty_signal"

\* C14 witness: an empty signal filtered with a non-finite low edge has come
\* back empty with the note
C14_Witness ==
    /\ op = "filter_signal"
    /\ pc = "done"
    /\ d_t_mm = <<>>
    /\ fs_arg = IntRate(2)
    /\ low_cut = NaN
    /\ ret.x = <<>>
    /\ ret.meta["note"] = "empty_signal"

\* a call of calculate_fft_spectrum with a valid rate and a signal the
\* sanitizer accepts (empty, or with a finite sample)
SpectrumCalled ==
    /\ op = "calculate_fft_spectrum"
    /\ Called
    /\ _validate_fs(fs_arg).err = NoError
    /\ _sanitize_signal(d_t_mm).err = NoError

\* the window name is neither absent nor "none" and the window builder
\* rejects it
WindowRejected == window \notin ValidWindows \cup {WindowNone, "none"}

\* C15 as stated: calculate_fft_spectrum fails with the invalid-window error
\* whenever the window name is not a recognized one, and for an empty signal
\* it returns empty frequency and amplitude arrays with a note.
C15_Original ==
    SpectrumCalled =>
        /\ WindowRejected => (pc = "error" /\ err = InvalidWindowError)
        /\ Len(d_t_mm) = 0 =>
              /\ pc = "done"
              /\ ret.freqs = <<>>
              /\ ret.X_amp = <<>>
              /\ ret.meta["note"] = "empty_signal"

\* C15: given a valid rate, calculate_fft_spectrum returns empty frequency
\* and amplitude arrays with the note "empty_signal" for an empty signal,
\* whatever the window name; for a non-empty signal with a finite sample it
\* fails with the invalid-window error exactly when the window name is
\* neither absent nor "none" and the window builder rejects it.
C15_WindowValidation ==
    SpectrumCalled =>
        /\ Len(d_t_mm) = 0 =>
              /\ pc = "done"
              /\ ret.freqs = <<>>
              /\ ret.X_amp = <<>>
              /\ DOMAIN ret.meta = {"note"}
              /\ ret.meta["note"] = "empty_signal"
        /\ Len(d_t_mm) > 0 =>
              (WindowRejected <=> (pc = "error" /\ err = InvalidWindowError))

\* C15 witness: a two-sample signal with a non-finite sample and the window
\* name "bogus" has failed with the invalid-window error
C15_Witness ==
    /\ SpectrumCalled
    /\ pc = "error"
    /\ err = InvalidWindowError
    /\ window = "bogus"
    /\ d_t_mm = <<NaN, Num(12)>>

\* a call of find_dominant_frequency on a spectrum (as many amplitudes as
\* frequencies) with a search band that is non-finite, has fmin <= 0 or has
\* fmin >= fmax
BadSearchBandCalled ==
    /\ op = "find_dominant_frequency"
    /\ Called
    /\ Len(freqs) = Len(X_amp)
    /\ \/ ~IsFinite(fmin)
       \/ ~IsFinite(fmax)
       \/ fmin.v <= 0
       \/ fmin.v >= fmax.v

\* C16 as stated: find_dominant_frequency fails with the
\* invalid-search-band error whenever fmin or fmax is non-finite, or
\* fmin <= 0, or fmin >= fmax, for every spectrum passed to it, an empty one
\* included.
C16_SearchBandValidation ==
    BadSearchBandCalled => (pc = "error" /\ err = InvalidSearchBandError)

\* what the code does on C16's case: the band is validated only for a
\* non-empty spectrum; for an empty one the call returns 0.0 with the note
\* "empty_spectrum" whatever the band
C16_AsCoded ==
    BadSearchBandCalled =>
        IF Len(freqs) > 0
        THEN pc = "error" /\ err = InvalidSearchBandError
        ELSE /\ pc = "done"
             /\ ret.f_peak = 0
             /\ ret.quality["note"] = "empty_spectrum"

\* a call of find_dominant_frequency with a valid band on a non-empty
\* spectrum whose frequency axis is ascending, as the spectral estimator
\* returns it
DominantCalled ==
    /\ op = "find_dominant_frequency"
    /\ Called
    /\ Len(freqs) > 0
    /\ Len(freqs) = Len(X_amp)
    /\ ~NotStrictlyIncreasing(freqs)
    /\ IsFinite(fmin) /\ IsFinite(fmax)
    /\ 0 < fmin.v
    /\ fmin.v < fmax.v

\* the bins with frequency in [fmin, fmax], both ends inclusive
BinsInBand == {i \in 1..Len(freqs) : fmin.v <= freqs[i] /\ freqs[i] <= fmax.v}

\* C17: for a valid band and a non-empty spectrum (frequency axis
\* ascending), find_dominant_frequency returns; it returns 0.0 with the
\* note "no_bins_in_search_band" exactly when no bin has its frequency in
\* [fmin, fmax], both ends inclusive; otherwise it returns the frequency of a
\* bin inside [fmin, fmax] whose amplitude is the maximum over the bins in
\* the band, and of several such bins the one of lowest frequency.
C17_DominantSelection ==
    DominantCalled =>
        /\ pc = "done"
        /\ BinsInBand = {} <=>
              /\ ret.f_peak = 0
              /\ "note" \in DOMAIN ret.quality
              /\ ret.quality["note"] = "no_bins_in_search_band"
        /\ BinsInBand # {} =>
              \E i \in BinsInBand :
                  /\ ret.f_peak = freqs[i]
                  /\ ret.quality["peak_amp"] = X_amp[i]
                  /\ \A j \in BinsInBand : X_amp[j] <= X_amp[i]
                  /\ \A j \in BinsInBand :
                         X_amp[j] = X_amp[i] => freqs[i] <= freqs[j]

\* C17 witness: on the axis 0, 0.5, 1 Hz with amplitudes 24, 12, 12 and
\* the band [0.5 Hz, 1 Hz], whose two ends are bins, the call has returned
\* 0.5 Hz: the lower of the two equal bins in the band, not the higher bin
\* outside it
C17_Witness ==
    /\ DominantCalled
    /\ pc = "done"
    /\ freqs = <<0, 500000, 1000000>>
    /\ X_amp = <<24, 12, 12>>
    /\ fmin = Num(500000)
    /\ fmax = Num(1000000)
    /\ ret.f_peak = 500000

\* C18: no step of a call of analyze_displacement_series, whether it
\* sanitizes non-finite samples, sorts the time stamps, resamples or fails,
\* changes the caller's time stamps, displacement samples, sampling rate
\* or identifier, and the result returned carries the identifier of the
\* input.
C18_InputNotModified ==
    [][op = "analyze_displacement_series" =>
          /\ time_stamps' = time_stamps
          /\ d_t_mm' = d_t_mm
          /\ fs_arg' = fs_arg
          /\ fan_id' = fan_id
          /\ pc' = "done" => result'.fan_id = fan_id]_vars

\* C18 witness: a call has returned for which the non-finite samples were
\* replaced, the time stamps were sorted and the series was resampled, and
\* the caller's arrays still hold the unsorted time stamps and the
\* non-finite samples
C18_Witness ==
    /\ op = "analyze_displacement_series"
    /\ pc = "done"
    /\ time_stamps = <<8, 0, 1>>
    /\ d_t_mm = <<NaN, Num(12), NaN>>
    /\ x_raw = <<Num(12), Num(12), Num(12)>>
    /\ resample_meta["resampled"]
    /\ t[1] = 0
    /\ result["fan_id"] = fan_id

\* the finite entries of the sanitizer's input left and right of index i
FiniteLeft(i) == {j \in FiniteIdx(d_t_mm) : j < i}
FiniteRight(i) == {j \in FiniteIdx(d_t_mm) : j > i}

\* v is the point at index i of the straight line through (l, yl) and
\* (r, yr), to the resolution of the fixed-point samples
OnLine(v, i, l, yl, r, yr) ==
    /\ (r - l) * (v - yl) <= (yr - yl) * (i - l)
    /\ (yr - yl) * (i - l) < (r - l) * (v - yl + 1)

\* C20: in what _sanitize_signal returns, every non-finite entry that lies
\* between two finite entries is replaced by the value, over the index
\* axis, on the straight line between its nearest finite neighbour on the
\* left and its nearest finite neighbour on the right, which lies between
\* the two neighbour values; a non-finite entry before the first finite
\* entry or after the last one is replaced by that nearest finite value.
C20_SanitizerInterpolation ==
    (op = "_sanitize_signal" /\ pc = "done") =>
        \A i \in 1..Len(d_t_mm) :
            ~IsFinite(d_t_mm[i]) =>
                /\ IsFinite(ret.x[i])
                /\ (FiniteLeft(i) # {} /\ FiniteRight(i) # {}) =>
                      LET l == MaxOf(FiniteLeft(i))
                          r == MinOf(FiniteRight(i))
                      IN  /\ OnLine(ret.x[i].v, i, l, d_t_mm[l].v, r, d_t_mm[r].v)
                          /\ MinOf({d_t_mm[l].v, d_t_mm[r].v}) <= ret.x[i].v
                          /\ ret.x[i].v <= MaxOf({d_t_mm[l].v, d_t_mm[r].v})
                /\ FiniteLeft(i) = {} => ret.x[i] = d_t_mm[MinOf(FiniteRight(i))]
                /\ FiniteRight(i) = {} => ret.x[i] = d_t_mm[MaxOf(FiniteLeft(i))]

\* C20 witness: two adjacent non-finite entries between -12 and 24 have
\* been replaced by 0 and 12, the points of the line at their indices
C20_Witness ==
    /\ op = "_sanitize_signal"
    /\ pc = "done"
    /\ d_t_mm = <<Num(-12), NaN, PInf, Num(24)>>
    /\ ret.x = <<Num(-12), Num(0), Num(12), Num(24)>>

\* a call of _check_and_resample_if_needed that returned for a valid rate
\* and as many time stamps as values, at least one
ResamplerReturned ==
    /\ op = "_check_and_resample_if_needed"
    /\ pc = "done"
    /\ Len(time_stamps) = Len(d_t_mm)
    /\ Len(time_stamps) > 0

\* the input ordered by time stamp
SortedTimes == NpSort(time_stamps)
SortedValues == Take(d_t_mm, ArgSort(time_stamps))

\* the jitter ratio of the ordered time base exceeds the tolerance
JitterOver == ~JitterWithin(Diff(SortedTimes), jitter_ratio_tol)

\* floor((t_last - t_first) * fs) + 1, time in ticks
GridLength ==
    ((SortedTimes[Len(SortedTimes)] - SortedTimes[1]) * fs_arg.v)
        \div TicksPerSecond + 1

\* v is the linear interpolation of the ordered input at time u
InterpolatedAt(u, v) ==
    \E i \in 1..Len(SortedTimes) :
        \/ SortedTimes[i] = u /\ v = SortedValues[i].v
        \/ /\ i < Len(SortedTimes)
           /\ SortedTimes[i] < u
           /\ u < SortedTimes[i + 1]
           /\ OnLine(v, u, SortedTimes[i], SortedValues[i].v,
                     SortedTimes[i + 1], SortedValues[i + 1].v)

\* C21: _check_and_resample_if_needed reports resampled = true exactly when
\* the jitter ratio exceeds the tolerance and
\* N_target = floor((t_last - t_first) * fs) + 1 is at least 8 (never for
\* an empty input); it then returns exactly N_target time points
\* t_first + k / fs, k = 0..N_target - 1, all within [t_first, t_last], and
\* as many values, each the linear interpolation of the ordered input at
\* its time point.
C21_ResamplingGrid ==
    (op = "_check_and_resample_if_needed" /\ pc = "done") =>
        /\ ret.meta["resampled"] <=>
              (ResamplerReturned /\ JitterOver /\ GridLength >= MinResampleLen)
        /\ ret.meta["resampled"] =>
              /\ Len(ret.t) = GridLength
              /\ Len(ret.x) = GridLength
              /\ \A k \in 1..GridLength :
                    /\ ret.t[k] * fs_arg.v
                          = SortedTimes[1] * fs_arg.v + (k - 1) * TicksPerSecond
                    /\ SortedTimes[1] <= ret.t[k]
                    /\ ret.t[k] <= SortedTimes[Len(SortedTimes)]
                    /\ IsFinite(ret.x[k])
                    /\ InterpolatedAt(ret.t[k], ret.x[k].v)

\* C21 witness: time stamps 2 s, 0 s, 0.25 s at 4 Hz (jitter ratio 0.75,
\* tolerance 0.02) have been resampled to the nine points 0, 0.25, ..., 2 s
C21_Witness ==
    /\ ResamplerReturned
    /\ time_stamps = <<8, 0, 1>>
    /\ d_t_mm = <<Num(0), Num(0), Num(12)>>
    /\ fs_arg = IntRate(4)
    /\ jitter_ratio_tol = DefaultTolPct
    /\ ret.meta["resampled"]
    /\ ret.t = <<0, 1, 2, 3, 4, 5, 6, 7, 8>>
    /\ ret.x[1] = Num(0)
    /\ ret.x[2] = Num(12)
    /\ ret.x[9] = Num(0)

\* the metadata reports the jitter ratio and the bounds of the time span
ReportsJitterAndSpan ==
    /\ IsFinite(ret.meta["jitter_ratio"])
    /\ jitter_ratio_tol >= 0 =>
          ret.meta["jitter_ratio"].v >= jitter_ratio_tol * jitter_ratio_tol
    /\ ret.meta["t_start"] = Num(SortedTimes[1])
    /\ ret.meta["t_end"] = Num(SortedTimes[Len(SortedTimes)])

\* C22 as stated: when the jitter ratio exceeds the tolerance but the
\* target length is below 8, the call returns the original series unchanged
\* with resampled = false and reports the jitter ratio and the time-span
\* bounds; a series of one or two samples is never resampled.
C22_Original ==
    ResamplerReturned =>
        /\ (JitterOver /\ GridLength < MinResampleLen) =>
              /\ ~ret.meta["resampled"]
              /\ ret.t = time_stamps
              /\ ret.x = d_t_mm
              /\ ReportsJitterAndSpan
        /\ Len(time_stamps) <= 2 => ~ret.meta["resampled"]

\* C22: when the jitter ratio exceeds the tolerance but the target length
\* floor((t_last - t_first) * fs) + 1 is below 8, the call does not
\* resample: it returns the series ordered by time stamp (the arrays passed
\* in, element for element, when they are already strictly increasing)
\* with resampled = false and reports the jitter ratio and the time-span
\* bounds; for a tolerance that is not negative a series of one or two
\* samples is never resampled.
C22_ShortSeriesSkip ==
    ResamplerReturned =>
        /\ (JitterOver /\ GridLength < MinResampleLen) =>
              /\ ~ret.meta["resampled"]
              /\ ret.t = SortedTimes
              /\ ret.x = SortedValues
              /\ ~NotStrictlyIncreasing(time_stamps) =>
                     ret.t = time_stamps /\ ret.x = d_t_mm
              /\ ReportsJitterAndSpan
        /\ (jitter_ratio_tol >= 0 /\ Len(time_stamps) <= 2) =>
              ~ret.meta["resampled"]

\* C22 witness: time stamps 2 s, 0 s, 0.25 s at 2 Hz (jitter ratio 0.75,
\* tolerance 0.02, five target points) have come back ordered and not
\* resampled
C22_Witness ==
    /\ ResamplerReturned
    /\ JitterOver
    /\ GridLength < MinResampleLen
    /\ time_stamps = <<8, 0, 1>>
    /\ d_t_mm = <<Num(0), Num(0), Num(12)>>
    /\ fs_arg = IntRate(2)
    /\ jitter_ratio_tol = DefaultTolPct
    /\ ~ret.meta["resampled"]
    /\ ret.t = <<0, 1, 8>>
    /\ ret.x = <<Num(0), Num(12), Num(0)>>

\* the spectral estimator has returned to analyze_displacement_series for a
\* non-empty filtered signal
SpectrumReturned ==
    /\ op = "analyze_displacement_series"
    /\ spec_meta # EmptyDict
    /\ Len(x_filt) > 0

\* max(N, zero_pad_to), N when no zero-pad length is given
TransformLength ==
    IF zero_pad_to.k = "none" \/ zero_pad_to.v < Len(x_filt)
    THEN Len(x_filt)
    ELSE zero_pad_to.v

\* C23: for a non-empty signal of N samples, calculate_fft_spectrum uses
\* the transform length nfft = max(N, zero_pad_to) (N when no zero-pad
\* length is given or it is smaller than N) and returns frequency and
\* amplitude arrays of the same length floor(nfft / 2) + 1, the
\* frequencies strictly ascending from 0 in steps of fs / nfft and every
\* amplitude non-negative.
C23_SpectrumShape ==
    SpectrumReturned =>
        /\ spec_meta["nfft"] = TransformLength
        /\ spec_meta["n"] = Len(x_filt)
        /\ Len(freqs) = TransformLength \div 2 + 1
        /\ Len(X_amp) = Len(freqs)
        /\ freqs[1] = 0
        /\ \A k \in 1..Len(freqs) :
              /\ freqs[k] * TransformLength <= (k - 1) * fs * FreqScale
              /\ (k - 1) * fs * FreqScale < (freqs[k] + 1) * TransformLength
              /\ X_amp[k] >= 0
        /\ \A k \in 1..(Len(freqs) - 1) : freqs[k] < freqs[k + 1]

\* C23 witness: nine samples with a zero-pad length of 8 have been
\* transformed at length 9 into 5 bins
C23_Witness ==
    /\ SpectrumReturned
    /\ pc = "done"
    /\ Len(x_filt) = 9
    /\ zero_pad_to = Num(8)
    /\ spec_meta["nfft"] = 9
    /\ Len(freqs) = 5
    /\ Len(X_amp) = 5

\* the factor, as a rational [num, den], that bin k of a transform of
\* length nfft is scaled by: 2 / (N * coherent_gain), halved for bin 0 and,
\* when nfft is even, for the last bin
BinFactor(k, nfft) ==
    LET cg == spec_meta["coherent_gain"]
        halved == k = 1 \/ (nfft % 2 = 0 /\ k = nfft \div 2 + 1)
    IN  [num |-> (IF halved THEN 1 ELSE 2) * cg.den,
         den |-> Len(x_filt) * cg.num]

\* C24: for a non-empty signal of N samples every amplitude returned by
\* calculate_fft_spectrum is the magnitude of its bin times
\* 2 / (N * coherent_gain), N the sample count and not the transform length,
\* halved once for bin 0, halved for the last bin exactly when the transform
\* length is even, and halved for no other bin; the coherent gain is 1 for
\* the "none" window, the mean of the window otherwise, and positive.
C24_AmplitudeCorrection ==
    SpectrumReturned =>
        /\ spec_meta["coherent_gain"].num > 0
        /\ spec_meta["coherent_gain"].den > 0
        /\ spec_meta["window"] = "none" =>
              spec_meta["coherent_gain"] = [num |-> 1, den |-> 1]
        /\ spec_meta["window"] # "none" =>
              spec_meta["coherent_gain"] = WindowMean(window, Len(x_filt))
        /\ \E mag \in LibMagnitudes(spec_meta["nfft"]) :
              \A k \in 1..Len(X_amp) :
                  X_amp[k] = (mag[k] * BinFactor(k, spec_meta["nfft"]).num)
                                 \div BinFactor(k, spec_meta["nfft"]).den

\* C24 witness: two samples under the Hann window (coherent gain 1/2),
\* zero-padded to 8: the magnitudes 12, 48, 12, 12, 12 have been scaled by
\* 2 / (2 * 1/2) = 2, bin 0 and the last bin by 1
C24_Witness ==
    /\ SpectrumReturned
    /\ pc = "done"
    /\ Len(x_filt) = 2
    /\ window = "hann"
    /\ zero_pad_to = Num(8)
    /\ X_amp = <<12, 96, 24, 24, 12>>

\* a call of find_dominant_frequency with a valid band on a spectrum with
\* at least one bin in the band
QualityCalled ==
    /\ op = "find_dominant_frequency"
    /\ Called
    /\ Len(freqs) = Len(X_amp)
    /\ IsFinite(fmin) /\ IsFinite(fmax)
    /\ 0 < fmin.v
    /\ fmin.v < fmax.v
    /\ BinsInBand # {}

\* the largest amplitude in the band
PeakInBand == MaxOf({X_amp[i] : i \in BinsInBand})

\* the second-largest amplitude in the band, counted with multiplicity: the
\* largest amplitude among the bins in the band other than one bin of
\* largest amplitude; 0 when the band holds one bin
SecondInBand ==
    LET top == CHOOSE i \in BinsInBand : X_amp[i] = PeakInBand
    IN  IF BinsInBand = {top} THEN 0
        ELSE MaxOf({X_amp[j] : j \in BinsInBand \ {top}})

\* the maximum is strictly larger than every other bin in the band
StrictMaximum ==
    \E i \in BinsInBand : \A j \in BinsInBand \ {i} : X_amp[j] < X_amp[i]

\* peak_amp, second_peak_amp, their order, the operands of peak_ratio and
\* the recorded search band
QualityValues ==
    /\ pc = "done"
    /\ ret.quality["peak_amp"] = PeakInBand
    /\ ret.quality["second_peak_amp"] = SecondInBand
    /\ ret.quality["second_peak_amp"] <= ret.quality["peak_amp"]
    /\ ret.quality["peak_ratio"] = <<PeakInBand, SecondInBand>>
    /\ ret.quality["search_band"] = <<fmin.v, fmax.v>>

\* C25 as stated: with at least one bin in the band, peak_amp is the
\* maximum amplitude in the band, second_peak_amp the second largest with
\* multiplicity (0 for a single bin), second_peak_amp <= peak_amp,
\* peak_ratio = peak_amp / (second_peak_amp + 1e-12), the recorded search
\* band is (fmin, fmax), and peak_ratio is greater than 1 whenever the
\* maximum is strictly larger than every other bin in the band.
C25_Original ==
    QualityCalled =>
        /\ QualityValues
        /\ StrictMaximum => RatioAboveOne(ret.quality["peak_ratio"])

\* C25: with at least one bin in the band, peak_amp is the maximum
\* amplitude in the band, second_peak_amp the second largest with
\* multiplicity (0 for a single bin), second_peak_amp <= peak_amp,
\* peak_ratio = peak_amp / (second_peak_amp + 1e-12), the recorded search
\* band is (fmin, fmax), and peak_ratio is greater than 1 exactly when
\* peak_amp exceeds second_peak_amp by more than 1e-12: for a maximum that
\* is strictly larger than every other bin in the band this needs a peak
\* above zero when it is the only bin.
C25_QualityDiagnostics ==
    QualityCalled =>
        /\ QualityValues
        /\ RatioAboveOne(ret.quality["peak_ratio"]) <=> PeakInBand > SecondInBand
        /\ (StrictMaximum /\ PeakInBand > 0) =>
              RatioAboveOne(ret.quality["peak_ratio"])

\* C25 witness: the band [0.5 Hz, 1 Hz] holds two bins of amplitude 24
\* next to a bin of amplitude 0 outside it: the second peak equals the peak
C25_Witness ==
    /\ QualityCalled
    /\ pc = "done"
    /\ freqs = <<0, 500000, 1000000>>
    /\ X_amp = <<0, 24, 24>>
    /\ fmin = Num(500000)
    /\ fmax = Num(1000000)
    /\ ret.quality["peak_amp"] = 24
    /\ ret.quality["second_peak_amp"] = 24

\* a call of calculate_time_domain_amp has returned
AmpReturned == op = "calculate_time_domain_amp" /\ pc = "done"

AllEqual(s) == \A i, j \in 1..Len(s) : s[i] = s[j]

\* C26 as stated: both metrics are 0.0 for an empty input; for every
\* input both are non-negative and peak-to-peak is 0 exactly when all
\* samples are equal.
C26_Original ==
    AmpReturned =>
        /\ Len(d_t_mm) = 0 => (ret.A_pp_mm = Num(0) /\ ret.A_rms_mm = Num(0))
        /\ FloatGe(ret.A_pp_mm, Num(0))
        /\ FloatGe(ret.A_rms_mm, Num(0))
        /\ ret.A_pp_mm = Num(0) <=> AllEqual(d_t_mm)

\* C26: calculate_time_domain_amp returns 0.0 twice for an empty input;
\* for a non-empty input of finite samples it returns
\* peak-to-peak = max - min and RMS = sqrt(mean(x^2)), both non-negative,
\* RMS <= max |x|, and peak-to-peak 0 exactly when all samples are equal;
\* for an input with a non-finite sample it returns non-finite metrics.
C26_TimeDomainMetrics ==
    AmpReturned =>
        LET vals == {d_t_mm[i].v : i \in 1..Len(d_t_mm)}
            mean_sq == SumSeq([i \in 1..Len(d_t_mm) |-> d_t_mm[i].v * d_t_mm[i].v])
                           \div Len(d_t_mm)
            rms == ret.A_rms_mm.v
        IN  /\ Len(d_t_mm) = 0 => (ret.A_pp_mm = Num(0) /\ ret.A_rms_mm = Num(0))
            /\ (Len(d_t_mm) > 0 /\ FiniteIdx(d_t_mm) = DOMAIN d_t_mm) =>
                  /\ ret.A_pp_mm = Num(MaxOf(vals) - MinOf(vals))
                  /\ ret.A_pp_mm.v >= 0
                  /\ IsFinite(ret.A_rms_mm)
                  /\ rms >= 0
                  /\ rms * rms <= mean_sq
                  /\ mean_sq < (rms + 1) * (rms + 1)
                  /\ rms <= MaxOf({MaxOf(vals), -MinOf(vals)})
                  /\ ret.A_pp_mm = Num(0) <=> AllEqual(d_t_mm)
            /\ FiniteIdx(d_t_mm) # DOMAIN d_t_mm =>
                  (~IsFinite(ret.A_pp_mm) /\ ~IsFinite(ret.A_rms_mm))

\* C26 witness: the samples -12, 0, 24 have given peak-to-peak 36 and RMS
\* 15 (the square root of 240, to the resolution of the samples)
C26_Witness ==
    /\ AmpReturned
    /\ d_t_mm = <<Num(-12), Num(0), Num(24)>>
    /\ ret.A_pp_mm = Num(36)
    /\ ret.A_rms_mm = Num(15)

\* a call of analyze_displacement_series with a legal rate and a legal
\* filter band (finite edges, low < high after the clamp)
LegalRateAndBand ==
    /\ op = "analyze_displacement_series"
    /\ _validate_fs(fs_arg).err = NoError
    /\ _clamp_band(low_cut, high_cut, fs_arg).err = NoError

\* C27 as stated: for a legal rate and a legal filter band, whatever
\* f_search_min and f_search_max are, the bounds handed to
\* find_dominant_frequency are finite with 0 < fmin < fmax and the call
\* never fails with the invalid-search-band error.
C27_NoSearchBandFailure ==
    LegalRateAndBand =>
        /\ err # InvalidSearchBandError
        /\ "search_band" \in Range(ran) =>
              /\ IsFinite(fmin) /\ IsFinite(fmax)
              /\ 0 < fmin.v
              /\ fmin.v < fmax.v

\* the bounds handed to find_dominant_frequency are finite, 0 < fmin < fmax
HandedBandValid ==
    /\ IsFinite(fmin) /\ IsFinite(fmax)
    /\ 0 < fmin.v
    /\ fmin.v < fmax.v

\* what the code does on C27's case: when the clamped high edge is above
\* max(low, 1e-3 Hz) the bounds handed over are valid and the search does
\* not fail; bounds that are not valid are the fallback
\* [max(low, 1e-3 Hz), high] of a band with high <= max(low, 1e-3 Hz), and
\* the search then fails with the invalid-search-band error unless the
\* spectrum is empty
C27_AsCoded ==
    (LegalRateAndBand /\ "search_band" \in Range(ran)) =>
        LET floor_lo == MaxOf({band[1], SearchFloor})
        IN  /\ floor_lo < band[2] =>
                  (HandedBandValid /\ err # InvalidSearchBandError)
            /\ ~HandedBandValid =>
                  /\ floor_lo >= band[2]
                  /\ fmin = Num(floor_lo)
                  /\ fmax = Num(band[2])
                  /\ "find_dominant" \in Range(ran) =>
                        IF Len(freqs) > 0
                        THEN pc = "error" /\ err = InvalidSearchBandError
                        ELSE pc \in {"assemble", "done"}

\* analyze_displacement_series has returned an AnalysisResult
ResultReturned == op = "analyze_displacement_series" /\ pc = "done"

C28_AsCoded ==
    ResultReturned =>
        LET m == result["preprocess_meta"]
        IN  /\ m["n_raw"] = Len(time_stamps)
            /\ m["n_used"] = Len(t)
            /\ m["n_used"] # m["n_raw"] => m["resampled"]
            /\ Len(time_stamps) = Len(d_t_mm) =>
                  /\ m["n_raw"] = Len(d_t_mm)
                  /\ m["n_used"] = Len(x_filt)
                  /\ "n" \in DOMAIN m => m["n_used"] = m["n"]
            /\ Len(time_stamps) # Len(d_t_mm) =>
                  /\ Len(time_stamps) = 0 \/ Len(d_t_mm) = 0
                  /\ m["n_used"] # Len(x_filt)

\* a stand-alone call of the resampler on a series of at least two samples
\* got past the monotonicity step (lines 120-127), as it was or after
\* sorting
PassedMonotonicity ==
    /\ op = "_check_and_resample_if_needed"
    /\ pc # "call"
    /\ Len(time_stamps) = Len(d_t_mm)
    /\ Len(time_stamps) >= 2
    /\ err \notin {InvalidRateError, ShapeMismatchError, NonMonotonicTimeError}

\* C29: whenever a series of at least two samples passes the
\* strictly-increasing check of _check_and_resample_if_needed (directly or
\* after sorting), every successive delta is > 0, hence the median delta
\* is > 0, and the "median dt <= 0" error is not raised.
C29_DegenerateUnreachable ==
    PassedMonotonicity =>
        /\ \A i \in 1..(Len(SortedTimes) - 1) :
               SortedTimes[i + 1] - SortedTimes[i] > 0
        /\ Median2(Diff(SortedTimes)) > 0
        /\ err # DegenerateTimeBaseError

\* an out-of-order series of three samples passed the check after sorting
C29_Witness ==
    /\ PassedMonotonicity
    /\ Len(time_stamps) = MaxLen
    /\ time_stamps # SortedTimes
    /\ err = NoError

\* analyze_displacement_series was called with a valid rate and a band that
\* _clamp_band rejects (a non-finite edge, or low >= high after clamping)
IllegalBand ==
    /\ op = "analyze_displacement_series"
    /\ _validate_fs(fs_arg).err = NoError
    /\ _clamp_band(low_cut, high_cut, fs_arg).err = InvalidBandError

\* the stage that ran last
LastStage == ran[Len(ran)]

\* the band recorded as used is the band the default search band is derived
\* from, for a non-empty signal
BandUsedIsSearchBase ==
    (op = "analyze_displacement_series" /\ pc = "done" /\ Len(x_filt) > 0) =>
        /\ result["preprocess_meta"]["band_used"] = band
        /\ band = <<_clamp_band(low_cut, high_cut, fs_arg).low,
                    _clamp_band(low_cut, high_cut, fs_arg).high>>
        /\ (f_search_min = None /\ f_search_max = None) =>
              /\ fmin = Num(MaxOf({band[1], SearchFloor}))
              /\ fmax = Num(band[2])

\* C30 as stated: analyze_displacement_series fails with the invalid-band
\* error for every illegal band whatever the series is, and for a non-empty
\* series the band recorded as used is the one the default search band is
\* derived from.
C30_Original ==
    /\ (IllegalBand /\ pc \in {"done", "error"}) =>
          (pc = "error" /\ err = InvalidBandError)
    /\ BandUsedIsSearchBase

\* C30: with an illegal band analyze_displacement_series never returns a
\* result, whatever the series is; once the series has passed sanitising
\* and resampling the failure is the invalid-band error, raised by the
\* filter for a non-empty series and by the orchestrator's own clamp of
\* line 425 for an empty one (a series rejected by the sanitiser or the
\* resampler fails with that stage's error first); and for a non-empty
\* series the band recorded as used is the one the default search band is
\* derived from.
C30_BandCheck ==
    /\ IllegalBand =>
          /\ pc \notin {"find_dominant", "assemble", "done"}
          /\ pc = "error" =>
                IF "filter" \in Range(ran)
                THEN /\ err = InvalidBandError
                     /\ IF Len(x) > 0 THEN LastStage = "filter"
                                      ELSE LastStage = "search_band"
                ELSE /\ LastStage \in {"sanitize", "resample"}
                     /\ err \in {AllInvalidError, ShapeMismatchError,
                                  NonMonotonicTimeError, DegenerateTimeBaseError}
    /\ BandUsedIsSearchBase

\* an illegal band with an empty series: the filter returned without
\* checking the band and the orchestrator's clamp raised
C30_Witness ==
    /\ IllegalBand
    /\ Len(d_t_mm) = 0
    /\ "note" \in DOMAIN filter_meta
    /\ pc = "error"
    /\ err = InvalidBandError
    /\ LastStage = "search_band"

=============================================================================
